---------------------------- MODULE Spec2Model ----------------------------
(***************************************************************************)
(* Model of the thread-safety core of UnrealSharpCore:                     *)
(*   - FCSAtomicHotReloadState        ThreadSafety/CSAtomicHotReloadState  *)
(*   - FCSThreadSafeManagedCallbacks  ThreadSafety/CSThreadSafeManaged...  *)
(*   - FCSConcurrencyMonitor          ThreadSafety/CSConcurrencyMonitor    *)
(* Every thread is a small program counter machine; one step is one access *)
(* to shared memory (an atomic load/store/RMW or a mutex operation), so    *)
(* that every interleaving the C++ memory accesses allow is explored.      *)
(* Values that the code only logs are not part of the state.               *)
(***************************************************************************)
EXTENDS Integers, Naturals, Sequences, FiniteSets, TLC

(***************************************************************************)
(* Bounds of the model.                                                    *)
(***************************************************************************)
NumThreads == 2        \* threads calling into the hot-reload state machine
MaxCalls == 4          \* public operations started on the state machine
MaxElapsed == 2        \* largest ElapsedTimeMs passed to AtomicEndHotReload
NumCallers == 2        \* threads calling into the callback gateway
MaxGatewayCalls == 3   \* public operations started on the gateway
ConfiguredLimit == 1   \* Config.MaxConcurrentCallbacks handed to Initialize
CallbackTimeout == 1   \* Config.CallbackTimeoutSeconds, in model time units
MaxDuration == 2       \* longest wrapped call, in model time units
NumMonitorThreads == 2 \* threads calling into the concurrency monitor
MaxMonitorCalls == 3   \* public operations started on the monitor
NumResources == 1      \* resource addresses handed to RecordResourceAccess
NumLocks == 3          \* lock addresses handed to RecordLockAcquisition
MaxClockAdvances == 2  \* times the clock moves on between operations
MaxReportCap == 2      \* largest Config.MaxViolationReports handed to Initialize
MaxHistoryWindow == 2     \* largest per-resource window, MaxResourceHistorySize / 10
MaxTotalViolations == 101  \* largest TotalViolationsDetected IsSystemHealthy is asked about

(***************************************************************************)
(* Program constants.                                                      *)
(***************************************************************************)
MaxConcurrentHotReloads == 1
MaxPendingHotReloads == 10
bEnableHotReloadQueue == TRUE
DefaultMaxConcurrentCallbacks == 64
RaceWindowMs == 50             \* TimeDiff < 50.0
ConflictWindowMs == 100        \* TimeDiff < 100.0
MergeWindowMs == 100           \* duration_cast<milliseconds>(...).count() < 100
RecentAccessWindow == 10       \* FMath::Min(AccessHistory.size(), 10)
UnhealthyViolationCount == 100 \* TotalViolations < 100
MsPerSecond == 1000
AccessExpiryMs == 300 * MsPerSecond              \* Age > 300.0
ThreadExpiryMs == 600 * MsPerSecond              \* Age > 600.0
DefaultDetectionIntervalMs == 1 * MsPerSecond    \* DetectionIntervalSeconds = 1.0
DefaultResourceAccessTimeoutMs == 5 * MsPerSecond \* ResourceAccessTimeoutSeconds = 5.0
DefaultMaxViolationReports == 1000
DefaultMaxResourceHistorySize == 10000

Threads == 1..NumThreads
NoThread == 0
HotReloadTypes == {"Full", "Incremental"}
ElapsedTimes == 1..MaxElapsed

Callers == 1..NumCallers
Durations == 1..MaxDuration

\* the Safe* wrappers of the gateway
InvokeWrappers == {"SafeInvokeManagedEvent", "SafeInvokeDelegate"}
PointerWrappers == {"SafeCreateNewManagedObject", "SafeCreateNewManagedObjectWrapper",
                    "SafeLookupMethod", "SafeLookupType"}
VoidWrappers == {"SafeDispose", "SafeFreeHandle"}
Wrappers == InvokeWrappers \cup PointerWrappers \cup VoidWrappers

\* threads, resource and lock addresses, and clock steps of the monitor;
\* times are in milliseconds
MonitorThreads == 1..NumMonitorThreads
Resources == 1..NumResources
Locks == 1..NumLocks
ClockSteps == {10, 200, 301 * MsPerSecond}
EAccessPattern == {"Read", "Write", "ReadWrite", "Atomic"}
\* ESeverity, by its enumerator values
Info == 0
Warning == 1
Error == 2
Critical == 3
ESeverity == {Info, Warning, Error, Critical}
EViolationType ==
    {"RaceCondition", "DeadlockPotential", "UnsafeConcurrentAccess",
     "ExcessiveLocking", "LockOrderViolation", "ThreadUnsafeUsage",
     "MemoryOrdering", "ResourceLeak"}

ECallbackResult ==
    {"Success", "Failed", "Timeout", "TooManyConcurrentCalls", "SystemNotReady"}

EHotReloadState ==
    {"Idle", "Preparing", "InProgress", "Finalizing", "Failed", "Cancelled"}

VARIABLES
    \* FCSAtomicHotReloadState members
    CurrentState, CurrentType, ActiveHotReloads, PendingHotReloads,
    CurrentHotReloadId, bIsSystemReady, bEmergencyStop, ActiveHotReloadIds,
    Stats, StateMutex,
    \* AsyncTask lambdas scheduled by EmergencyStopAllHotReloads
    resetSleeping, resetMid,
    \* per-thread position, current operation, return value, locals, arguments
    hpc, hop, hret, CurrentStateValue, OutHotReloadId, bSuccess,
    \* per-thread FScopedHotReloadTracker: its members, where its owner is in
    \* ATOMIC_HOT_RELOAD_OPERATION, and the bSuccess arguments of the
    \* AtomicEndHotReload calls it made, its first Mark call and its Mark calls
    Tracker,
    \* bookkeeping of the run: calls started, sessions open, largest id returned,
    \* EmergencyStopAllHotReloads was called with a session active and requests queued,
    \* the state and the counters as the End or Cancel in progress found them
    \* and whether no store of EmergencyStopAllHotReloads or of its delayed
    \* reset landed since
    hcalls, openSessions, maxIssuedId, busyAtStop, atCall,
    \* FCSThreadSafeManagedCallbacks members (its Stats member is CallbackStats)
    bIsInitialized, bIsShuttingDown, CallbackStats, Config, ActiveCallbackIds,
    NextCallbackId, CallbackMutex,
    \* per-caller position, wrapper, locals of the wrapper and of its tracker
    gpc, gop, Result, CallbackId, ActiveCount, Outcome, Elapsed,
    \* bookkeeping of the run: calls started, ForceTerminateAllCallbacks has run,
    \* results returned by the wrappers since the statistics were last reset
    gcalls, forceTerminated, returned,
    \* FCSConcurrencyMonitor members (its bIsInitialized, Config and Stats members
    \* are bMonitorInitialized, MonitorConfig and MonitorStats)
    bMonitorInitialized, bIsMonitoring, bShouldStop, MonitorConfig, MonitorStats,
    ResourceAccessHistory, ThreadLastActivity, ThreadLockOrder, ViolationReports,
    \* high_resolution_clock::now(), and the monitoring thread: its position and
    \* the end of its sleep_for
    Clock, cpc, WakeTime,
    \* per-thread position, operation, return value, arguments and locals
    mpc, mop, mret, Resource, AccessPattern, LockObject, Now, TotalViolations,
    \* bookkeeping of the run: calls started, clock advances, the reports handed
    \* to ReportViolation by the latest step, when each resource was last
    \* passed to RecordResourceAccess, the std::thread objects running
    \* MonitoringThreadLoop that were created and not yet joined, the locks each
    \* thread reported as acquired and not yet as released
    mcalls, advances, emitted, lastAccess, liveThreads, heldLocks,
    \* the thread that holds each std::mutex of the monitor, the lock_guard
    \* constructions and destructions each thread has still to execute in its
    \* call, and the pairs (held, acquired) of every nested acquisition so far
    MutexOwner, path, nested

hrShared == <<CurrentState, CurrentType, ActiveHotReloads, PendingHotReloads,
              CurrentHotReloadId, bIsSystemReady, bEmergencyStop,
              ActiveHotReloadIds, Stats>>
hrLocals == <<CurrentStateValue, OutHotReloadId, bSuccess, Tracker>>
hrTasks == <<resetSleeping, resetMid>>
hrGhost == <<openSessions, maxIssuedId, busyAtStop, atCall>>
hrVars == <<hrShared, StateMutex, hrTasks, hpc, hop, hret, hrLocals, hcalls,
            hrGhost>>

gwShared == <<bIsInitialized, bIsShuttingDown, CallbackStats, Config,
              ActiveCallbackIds, NextCallbackId>>
gwLocals == <<Result, CallbackId, ActiveCount, Outcome, Elapsed>>
gwVars == <<gwShared, CallbackMutex, gpc, gop, gwLocals, gcalls, forceTerminated,
            returned>>

mtxVars == <<MutexOwner, path, nested>>
monShared == <<bMonitorInitialized, bIsMonitoring, bShouldStop, MonitorConfig,
               MonitorStats, ResourceAccessHistory, ThreadLastActivity,
               ThreadLockOrder, ViolationReports>>
monVars == <<monShared, Clock, cpc, WakeTime, mpc, mop, mret, Resource,
             AccessPattern, LockObject, Now, TotalViolations, mcalls, advances,
             emitted, lastAccess, liveThreads, heldLocks, mtxVars>>

\* FHotReloadStats{} : every counter at its initialiser
FHotReloadStats ==
    [TotalHotReloads |-> 0, SuccessfulHotReloads |-> 0, FailedHotReloads |-> 0,
     CancelledHotReloads |-> 0, MaxHotReloadTime |-> 0]

\* no FScopedHotReloadTracker exists for the thread
FScopedHotReloadTracker ==
    [phase |-> "none", HotReloadId |-> 0, bIsActive |-> FALSE, Ends |-> <<>>,
     Marked |-> "none", Marks |-> 0]

InitHR ==
    /\ CurrentState = "Idle"
    /\ CurrentType = "Full"
    /\ ActiveHotReloads = 0
    /\ PendingHotReloads = 0
    /\ CurrentHotReloadId = 0
    /\ bIsSystemReady = TRUE
    /\ bEmergencyStop = FALSE
    /\ ActiveHotReloadIds = {}
    /\ Stats = FHotReloadStats
    /\ StateMutex = NoThread
    /\ resetSleeping = 0
    /\ resetMid = 0
    /\ hpc = [t \in Threads |-> "idle"]
    /\ hop = [t \in Threads |-> "none"]
    /\ hret = [t \in Threads |-> "none"]
    /\ CurrentStateValue = [t \in Threads |-> "Idle"]
    /\ OutHotReloadId = [t \in Threads |-> 0]
    /\ bSuccess = [t \in Threads |-> FALSE]
    /\ Tracker = [t \in Threads |-> FScopedHotReloadTracker]
    /\ hcalls = 0
    /\ openSessions = 0
    /\ maxIssuedId = 0
    /\ busyAtStop = [t \in Threads |-> FALSE]
    /\ atCall = [State |-> "Idle", Active |-> 0, Pending |-> 0,
                 Stats |-> FHotReloadStats, Undisturbed |-> TRUE]

\* FCallbackStats{} : every counter at its initialiser
FCallbackStats ==
    [TotalCallbacksExecuted |-> 0, SuccessfulCallbacks |-> 0, FailedCallbacks |-> 0,
     TimeoutCallbacks |-> 0, RejectedCallbacks |-> 0, CurrentActiveCalls |-> 0,
     MaxConcurrentCalls |-> 0]

\* FConcurrencyConfig{} : the defaults of the fields the wrappers read
FConcurrencyConfig ==
    [MaxConcurrentCallbacks |-> DefaultMaxConcurrentCallbacks,
     bEnableStatistics |-> TRUE, bEnableTimeout |-> TRUE]

\* the configurations handed to Initialize and UpdateConfiguration
Configurations ==
    [MaxConcurrentCallbacks : {ConfiguredLimit},
     bEnableStatistics : BOOLEAN, bEnableTimeout : BOOLEAN]

\* no wrapper has returned yet
NoneReturned ==
    [Success |-> 0, Failed |-> 0, Timeout |-> 0, TooManyConcurrentCalls |-> 0]

InitGW ==
    /\ bIsInitialized = FALSE
    /\ bIsShuttingDown = FALSE
    /\ CallbackStats = FCallbackStats
    /\ Config = FConcurrencyConfig
    /\ ActiveCallbackIds = {}
    /\ NextCallbackId = 1
    /\ CallbackMutex = NoThread
    /\ gpc = [t \in Callers |-> "idle"]
    /\ gop = [t \in Callers |-> "none"]
    /\ Result = [t \in Callers |-> "none"]
    /\ CallbackId = [t \in Callers |-> 0]
    /\ ActiveCount = [t \in Callers |-> 0]
    /\ Outcome = [t \in Callers |-> "none"]
    /\ Elapsed = [t \in Callers |-> 0]
    /\ gcalls = 0
    /\ forceTerminated = FALSE
    /\ returned = NoneReturned

\* FMonitoringConfig's member initializers; times in milliseconds
FMonitoringConfig ==
    [bEnableRaceConditionDetection |-> TRUE,
     bEnableDeadlockDetection      |-> TRUE,
     bEnableLockOrderValidation    |-> TRUE,
     bEnableResourceTracking       |-> TRUE,
     DetectionIntervalSeconds      |-> DefaultDetectionIntervalMs,
     MaxViolationReports           |-> DefaultMaxViolationReports,
     MaxResourceHistorySize        |-> DefaultMaxResourceHistorySize,
     ResourceAccessTimeoutSeconds  |-> DefaultResourceAccessTimeoutMs,
     MinReportSeverity             |-> Warning]

\* FMonitoringStats's member initializers (the counters the model follows)
FMonitoringStats ==
    [TotalViolationsDetected |-> 0,
     RaceConditionViolations |-> 0,
     DeadlockViolations      |-> 0,
     LockOrderViolations     |-> 0,
     ResourceLeakViolations  |-> 0]

\* a null Resource or LockObject pointer
NoResource == 0

\* FCSConcurrencyMonitor after construction: nothing initialized, no monitoring
\* thread, every container empty
InitMonitor ==
    /\ bMonitorInitialized = FALSE
    /\ bIsMonitoring = FALSE
    /\ bShouldStop = FALSE
    /\ MonitorConfig = FMonitoringConfig
    /\ MonitorStats = FMonitoringStats
    /\ ResourceAccessHistory = [r \in Resources |-> <<>>]
    /\ ThreadLastActivity = <<>>
    /\ ThreadLockOrder = [t \in MonitorThreads |-> <<>>]
    /\ ViolationReports = <<>>
    /\ Clock = 0
    /\ cpc = "none"
    /\ WakeTime = 0
    /\ mpc = [t \in MonitorThreads |-> "idle"]
    /\ mop = [t \in MonitorThreads |-> "none"]
    /\ mret = [t \in MonitorThreads |-> "none"]
    /\ Resource = [t \in MonitorThreads |-> NoResource]
    /\ AccessPattern = [t \in MonitorThreads |-> "none"]
    /\ LockObject = [t \in MonitorThreads |-> NoResource]
    /\ Now = [t \in MonitorThreads |-> 0]
    /\ TotalViolations = [t \in MonitorThreads |-> 0]
    /\ mcalls = 0
    /\ advances = 0
    /\ emitted = [step |-> "none", examined |-> {}, reports |-> <<>>]
    /\ lastAccess = <<>>
    /\ liveThreads = 0
    /\ heldLocks = [t \in MonitorThreads |-> <<>>]
    /\ MutexOwner = [m \in {"ResourcesMutex", "ThreadsMutex", "LockOrderMutex",
                             "ViolationsMutex"} |-> NoThread]
    /\ path = [t \in 1..(NumMonitorThreads + 1) |-> <<>>]
    /\ nested = {}

(***************************************************************************)
(* Helpers shared by the operations.                                       *)
(***************************************************************************)
\* a thread is between calls, not between the statements of
\* ATOMIC_HOT_RELOAD_OPERATION or of ~FScopedHotReloadTracker, and the call
\* budget allows another call
CanCall(t) ==
    /\ hpc[t] = "idle"
    /\ Tracker[t].phase \in {"none", "alive"}
    /\ hcalls < MaxCalls

\* a StateMutex that excludes nobody: the operations without their lock_guard
StateMutexNeverHeld == TRUE

\* std::lock_guard<std::mutex> Lock(StateMutex) can be taken
StateMutexAvailable == StateMutex = NoThread

Goto(t, label) == hpc' = [hpc EXCEPT ![t] = label]
\* the call returns value: the thread is between calls again
Return(t, value) ==
    /\ hpc' = [hpc EXCEPT ![t] = "idle"]
    /\ hop' = [hop EXCEPT ![t] = "none"]
    /\ hret' = [hret EXCEPT ![t] = value]

\* FCSAtomicHotReloadState::ValidateStateTransition
ValidateStateTransition(FromState, ToState) ==
    CASE FromState = "Idle" -> ToState = "Preparing"
      [] FromState = "Preparing" -> ToState \in {"InProgress", "Failed", "Cancelled"}
      [] FromState = "InProgress" -> ToState \in {"Finalizing", "Failed", "Cancelled"}
      [] FromState = "Finalizing" -> ToState \in {"Idle", "Failed"}
      [] FromState \in {"Failed", "Cancelled"} -> ToState = "Idle"
      [] OTHER -> FALSE


(***************************************************************************)
(* AtomicBeginHotReload(Type, OutHotReloadId)                              *)
(***************************************************************************)
\* the call, and the first load of IsSystemReady(): bIsSystemReady
BeginCall(t) ==
    /\ CanCall(t)
    /\ hcalls' = hcalls + 1
    /\ OutHotReloadId' = [OutHotReloadId EXCEPT ![t] = 0]
    /\ IF bIsSystemReady
         THEN /\ Goto(t, "b_emerg")
              /\ hop' = [hop EXCEPT ![t] = "Begin"]
              /\ hret' = [hret EXCEPT ![t] = "none"]
         ELSE Return(t, "false")
    /\ UNCHANGED <<hrShared, StateMutex, hrTasks, CurrentStateValue, bSuccess,
                   hrGhost>>
    /\ UNCHANGED Tracker
    /\ UNCHANGED <<gwVars, monVars>>

\* the second load of IsSystemReady(): !bEmergencyStop
BeginLoadEmergency(t) ==
    /\ hpc[t] = "b_emerg"
    /\ IF bEmergencyStop
         THEN Return(t, "false")
         ELSE Goto(t, "b_lock") /\ UNCHANGED <<hop, hret>>
    /\ UNCHANGED <<hrShared, StateMutex, hrTasks, hrLocals, hcalls, hrGhost>>
    /\ UNCHANGED <<gwVars, monVars>>

BeginLock(t) ==
    /\ hpc[t] = "b_lock"
    /\ StateMutexAvailable
    /\ StateMutex' = t
    /\ Goto(t, "b_load")
    /\ UNCHANGED <<hrShared, hrTasks, hop, hret, hrLocals, hcalls, hrGhost>>
    /\ UNCHANGED <<gwVars, monVars>>

\* CurrentStateValue = CurrentState.load(); if (CurrentStateValue != Idle)
BeginLoadState(t) ==
    /\ hpc[t] = "b_load"
    /\ CurrentStateValue' = [CurrentStateValue EXCEPT ![t] = CurrentState]
    /\ Goto(t, IF CurrentState # "Idle" THEN "b_pload" ELSE "b_active")
    /\ UNCHANGED <<hrShared, StateMutex, hrTasks, hop, hret, OutHotReloadId,
                   bSuccess, hcalls, hrGhost>>
    /\ UNCHANGED Tracker
    /\ UNCHANGED <<gwVars, monVars>>

\* if (bEnableHotReloadQueue && PendingHotReloads.load() < 10) ... else return false
BeginLoadPending(t) ==
    /\ hpc[t] = "b_pload"
    /\ IF bEnableHotReloadQueue /\ PendingHotReloads < MaxPendingHotReloads
         THEN Goto(t, "b_padd") /\ UNCHANGED hret
         ELSE Goto(t, "unlock") /\ hret' = [hret EXCEPT ![t] = "false"]
    /\ UNCHANGED <<hrShared, StateMutex, hrTasks, hop, hrLocals, hcalls, hrGhost>>
    /\ UNCHANGED <<gwVars, monVars>>

\* PendingHotReloads.fetch_add(1); return false
BeginQueue(t) ==
    /\ hpc[t] = "b_padd"
    /\ PendingHotReloads' = PendingHotReloads + 1
    /\ hret' = [hret EXCEPT ![t] = "false"]
    /\ Goto(t, "unlock")
    /\ UNCHANGED <<CurrentState, CurrentType, ActiveHotReloads, CurrentHotReloadId,
                   bIsSystemReady, bEmergencyStop, ActiveHotReloadIds, Stats,
                   StateMutex, hrTasks, hop, hrLocals, hcalls, hrGhost>>
    /\ UNCHANGED <<gwVars, monVars>>

\* if (ActiveHotReloads.load() >= MaxConcurrentHotReloads) return false
BeginLoadActive(t) ==
    /\ hpc[t] = "b_active"
    /\ IF ActiveHotReloads >= MaxConcurrentHotReloads
         THEN Goto(t, "unlock") /\ hret' = [hret EXCEPT ![t] = "false"]
         ELSE Goto(t, "b_cas") /\ UNCHANGED hret
    /\ UNCHANGED <<hrShared, StateMutex, hrTasks, hop, hrLocals, hcalls, hrGhost>>
    /\ UNCHANGED <<gwVars, monVars>>

\* CurrentState.compare_exchange_strong(Idle, Preparing), else return false
BeginCas(t) ==
    /\ hpc[t] = "b_cas"
    /\ IF CurrentState = "Idle"
         THEN /\ CurrentState' = "Preparing"
              /\ Goto(t, "b_type")
              /\ UNCHANGED hret
         ELSE /\ UNCHANGED CurrentState
              /\ Goto(t, "unlock")
              /\ hret' = [hret EXCEPT ![t] = "false"]
    /\ UNCHANGED <<CurrentType, ActiveHotReloads, PendingHotReloads,
                   CurrentHotReloadId, bIsSystemReady, bEmergencyStop,
                   ActiveHotReloadIds, Stats, StateMutex, hrTasks, hop, hrLocals,
                   hcalls, hrGhost>>
    /\ UNCHANGED <<gwVars, monVars>>

\* CurrentType.store(Type)
BeginStoreType(t) ==
    /\ hpc[t] = "b_type"
    /\ \E Type \in HotReloadTypes : CurrentType' = Type
    /\ Goto(t, "b_id")
    /\ UNCHANGED <<CurrentState, ActiveHotReloads, PendingHotReloads,
                   CurrentHotReloadId, bIsSystemReady, bEmergencyStop,
                   ActiveHotReloadIds, Stats, StateMutex, hrTasks, hop, hret,
                   hrLocals, hcalls, hrGhost>>
    /\ UNCHANGED <<gwVars, monVars>>

\* OutHotReloadId = GenerateNewHotReloadId(): CurrentHotReloadId.fetch_add(1) + 1
GenerateNewHotReloadId(t) ==
    /\ hpc[t] = "b_id"
    /\ CurrentHotReloadId' = CurrentHotReloadId + 1
    /\ OutHotReloadId' = [OutHotReloadId EXCEPT ![t] = CurrentHotReloadId + 1]
    /\ Goto(t, "b_inc")
    /\ UNCHANGED <<CurrentState, CurrentType, ActiveHotReloads, PendingHotReloads,
                   bIsSystemReady, bEmergencyStop, ActiveHotReloadIds, Stats,
                   StateMutex, hrTasks, hop, hret, CurrentStateValue, bSuccess,
                   hcalls, hrGhost>>
    /\ UNCHANGED Tracker
    /\ UNCHANGED <<gwVars, monVars>>

\* ActiveHotReloads.fetch_add(1)
BeginIncActive(t) ==
    /\ hpc[t] = "b_inc"
    /\ ActiveHotReloads' = ActiveHotReloads + 1
    /\ Goto(t, "b_store")
    /\ UNCHANGED <<CurrentState, CurrentType, PendingHotReloads, CurrentHotReloadId,
                   bIsSystemReady, bEmergencyStop, ActiveHotReloadIds, Stats,
                   StateMutex, hrTasks, hop, hret, hrLocals, hcalls, hrGhost>>
    /\ UNCHANGED <<gwVars, monVars>>

\* CurrentState.store(InProgress); return true
BeginStoreInProgress(t) ==
    /\ hpc[t] = "b_store"
    /\ CurrentState' = "InProgress"
    /\ hret' = [hret EXCEPT ![t] = "true"]
    /\ Goto(t, "unlock")
    /\ UNCHANGED <<CurrentType, ActiveHotReloads, PendingHotReloads,
                   CurrentHotReloadId, bIsSystemReady, bEmergencyStop,
                   ActiveHotReloadIds, Stats, StateMutex, hrTasks, hop, hrLocals,
                   hcalls, hrGhost>>
    /\ UNCHANGED <<gwVars, monVars>>

\* the lock_guard of Begin/End/Cancel/Initialize is destroyed and the call
\* returns the value it decided; a Begin that returns true opens a session
LeaveLockGuard(t) ==
    /\ hpc[t] = "unlock"
    /\ StateMutex' = NoThread
    /\ Goto(t, "idle")
    /\ hop' = [hop EXCEPT ![t] = "none"]
    /\ IF hop[t] = "Begin" /\ hret[t] = "true"
         THEN /\ openSessions' = openSessions + 1
              /\ maxIssuedId' = IF OutHotReloadId[t] > maxIssuedId
                                  THEN OutHotReloadId[t] ELSE maxIssuedId
         ELSE UNCHANGED <<openSessions, maxIssuedId>>
    /\ atCall' = [State |-> "Idle", Active |-> 0, Pending |-> 0,
                  Stats |-> FHotReloadStats, Undisturbed |-> TRUE]
    /\ UNCHANGED busyAtStop
    /\ CurrentStateValue' = [CurrentStateValue EXCEPT ![t] = "Idle"]
    /\ bSuccess' = [bSuccess EXCEPT ![t] = FALSE]
    /\ UNCHANGED <<hrShared, hrTasks, hret, OutHotReloadId, hcalls>>
    /\ UNCHANGED Tracker
    /\ UNCHANGED <<gwVars, monVars>>

AtomicBeginHotReload(t) ==
    \/ BeginCall(t)
    \/ BeginLoadEmergency(t)
    \/ BeginLock(t)
    \/ BeginLoadState(t)
    \/ BeginLoadPending(t)
    \/ BeginQueue(t)
    \/ BeginLoadActive(t)
    \/ BeginCas(t)
    \/ BeginStoreType(t)
    \/ GenerateNewHotReloadId(t)
    \/ BeginIncActive(t)
    \/ BeginStoreInProgress(t)

(***************************************************************************)
(* AtomicEndHotReload(HotReloadId, bSuccess, ElapsedTimeMs)                *)
(* HotReloadId is only logged.                                             *)
(***************************************************************************)
\* the call with its arguments, and std::lock_guard Lock(StateMutex)
EndCall(t) ==
    /\ CanCall(t)
    /\ StateMutexAvailable
    /\ StateMutex' = t
    /\ hcalls' = hcalls + 1
    /\ hop' = [hop EXCEPT ![t] = "End"]
    /\ hret' = [hret EXCEPT ![t] = "none"]
    /\ \E ok \in BOOLEAN : bSuccess' = [bSuccess EXCEPT ![t] = ok]
    /\ Goto(t, "e_load")
    /\ atCall' = [State |-> CurrentState, Active |-> ActiveHotReloads,
                  Pending |-> PendingHotReloads, Stats |-> Stats,
                  Undisturbed |-> TRUE]
    /\ UNCHANGED <<openSessions, maxIssuedId, busyAtStop>>
    /\ UNCHANGED <<hrShared, hrTasks, CurrentStateValue, OutHotReloadId>>
    /\ UNCHANGED Tracker
    /\ UNCHANGED <<gwVars, monVars>>

\* an End that records the hot reload before it looks at the state
EndLoadStateRecording(t) ==
    /\ hpc[t] = "e_load"
    /\ CurrentStateValue' = [CurrentStateValue EXCEPT ![t] = CurrentState]
    /\ Stats' = [Stats EXCEPT !.TotalHotReloads = @ + 1]
    /\ IF CurrentState \notin {"InProgress", "Finalizing"}
         THEN Goto(t, "unlock") /\ hret' = [hret EXCEPT ![t] = "false"]
         ELSE Goto(t, "e_fin") /\ UNCHANGED hret
    /\ UNCHANGED <<CurrentState, CurrentType, ActiveHotReloads, PendingHotReloads,
                   CurrentHotReloadId, bIsSystemReady, bEmergencyStop,
                   ActiveHotReloadIds, StateMutex, hrTasks, hop, OutHotReloadId,
                   bSuccess, hcalls, hrGhost>>
    /\ UNCHANGED Tracker
    /\ UNCHANGED <<gwVars, monVars>>

\* if (CurrentStateValue != InProgress && CurrentStateValue != Finalizing) return false
EndLoadState(t) ==
    /\ hpc[t] = "e_load"
    /\ CurrentStateValue' = [CurrentStateValue EXCEPT ![t] = CurrentState]
    /\ IF CurrentState \notin {"InProgress", "Finalizing"}
         THEN Goto(t, "unlock") /\ hret' = [hret EXCEPT ![t] = "false"]
         ELSE Goto(t, "e_fin") /\ UNCHANGED hret
    /\ UNCHANGED <<hrShared, StateMutex, hrTasks, hop, OutHotReloadId, bSuccess,
                   hcalls, hrGhost>>
    /\ UNCHANGED Tracker
    /\ UNCHANGED <<gwVars, monVars>>

\* CurrentState.store(Finalizing)
EndStoreFinalizing(t) ==
    /\ hpc[t] = "e_fin"
    /\ CurrentState' = "Finalizing"
    /\ Goto(t, "e_total")
    /\ UNCHANGED <<CurrentType, ActiveHotReloads, PendingHotReloads,
                   CurrentHotReloadId, bIsSystemReady, bEmergencyStop,
                   ActiveHotReloadIds, Stats, StateMutex, hrTasks, hop, hret,
                   hrLocals, hcalls, hrGhost>>
    /\ UNCHANGED <<gwVars, monVars>>

\* FHotReloadStats::RecordHotReload: TotalHotReloads.fetch_add(1)
RecordHotReloadTotal(t) ==
    /\ hpc[t] = "e_total"
    /\ Stats' = [Stats EXCEPT !.TotalHotReloads = @ + 1]
    /\ Goto(t, "e_outcome")
    /\ UNCHANGED <<CurrentState, CurrentType, ActiveHotReloads, PendingHotReloads,
                   CurrentHotReloadId, bIsSystemReady, bEmergencyStop,
                   ActiveHotReloadIds, StateMutex, hrTasks, hop, hret, hrLocals,
                   hcalls, hrGhost>>
    /\ UNCHANGED <<gwVars, monVars>>

\* FHotReloadStats::RecordHotReload: the success or the failure counter, and
\* on success the running maximum of the duration ElapsedTimeMs the caller
\* passed (the smoothed average is a double that no operation reads back; it
\* is left out of the state)
RecordHotReloadOutcome(t) ==
    /\ hpc[t] = "e_outcome"
    /\ IF bSuccess[t]
         THEN \E TimeMs \in ElapsedTimes :
                Stats' = [Stats EXCEPT
                  !.SuccessfulHotReloads = @ + 1,
                  !.MaxHotReloadTime = IF TimeMs > @ THEN TimeMs ELSE @]
         ELSE Stats' = [Stats EXCEPT !.FailedHotReloads = @ + 1]
    /\ Goto(t, "e_dec")
    /\ UNCHANGED <<CurrentState, CurrentType, ActiveHotReloads, PendingHotReloads,
                   CurrentHotReloadId, bIsSystemReady, bEmergencyStop,
                   ActiveHotReloadIds, StateMutex, hrTasks, hop, hret, hrLocals,
                   hcalls, hrGhost>>
    /\ UNCHANGED <<gwVars, monVars>>

\* ActiveHotReloads.fetch_sub(1)
\* an End whose lock_guard ends before the state is back at Idle
EndDecActiveUnlocked(t) ==
    /\ hpc[t] = "e_dec"
    /\ ActiveHotReloads' = ActiveHotReloads - 1
    /\ StateMutex' = NoThread
    /\ Goto(t, "e_pload")
    /\ UNCHANGED <<CurrentState, CurrentType, PendingHotReloads, CurrentHotReloadId,
                   bIsSystemReady, bEmergencyStop, ActiveHotReloadIds, Stats,
                   hrTasks, hop, hret, hrLocals, hcalls, hrGhost>>
    /\ UNCHANGED <<gwVars, monVars>>

EndDecActive(t) ==
    /\ hpc[t] = "e_dec"
    /\ ActiveHotReloads' = ActiveHotReloads - 1
    /\ Goto(t, "e_pload")
    /\ UNCHANGED <<CurrentState, CurrentType, PendingHotReloads, CurrentHotReloadId,
                   bIsSystemReady, bEmergencyStop, ActiveHotReloadIds, Stats,
                   StateMutex, hrTasks, hop, hret, hrLocals, hcalls, hrGhost>>
    /\ UNCHANGED <<gwVars, monVars>>

\* an End that decrements PendingHotReloads without looking at it
EndLoadPendingUnchecked(t) ==
    /\ hpc[t] = "e_pload"
    /\ Goto(t, "e_pdec")
    /\ UNCHANGED <<hrShared, StateMutex, hrTasks, hop, hret, hrLocals, hcalls,
                   hrGhost>>
    /\ UNCHANGED <<gwVars, monVars>>

\* if (PendingHotReloads.load() > 0)
EndLoadPending(t) ==
    /\ hpc[t] = "e_pload"
    /\ Goto(t, IF PendingHotReloads > 0 THEN "e_pdec" ELSE "e_idle")
    /\ UNCHANGED <<hrShared, StateMutex, hrTasks, hop, hret, hrLocals, hcalls,
                   hrGhost>>
    /\ UNCHANGED <<gwVars, monVars>>

\* PendingHotReloads.fetch_sub(1)
EndDecPending(t) ==
    /\ hpc[t] = "e_pdec"
    /\ PendingHotReloads' = PendingHotReloads - 1
    /\ Goto(t, "e_idle")
    /\ UNCHANGED <<CurrentState, CurrentType, ActiveHotReloads, CurrentHotReloadId,
                   bIsSystemReady, bEmergencyStop, ActiveHotReloadIds, Stats,
                   StateMutex, hrTasks, hop, hret, hrLocals, hcalls, hrGhost>>
    /\ UNCHANGED <<gwVars, monVars>>

\* CurrentState.store(Idle); return true.  The open session is closed.
EndStoreIdle(t) ==
    /\ hpc[t] = "e_idle"
    /\ CurrentState' = "Idle"
    /\ hret' = [hret EXCEPT ![t] = "true"]
    /\ openSessions' = 0
    /\ Goto(t, "unlock")
    /\ UNCHANGED <<CurrentType, ActiveHotReloads, PendingHotReloads,
                   CurrentHotReloadId, bIsSystemReady, bEmergencyStop,
                   ActiveHotReloadIds, Stats, StateMutex, hrTasks, hop, hrLocals,
                   hcalls, maxIssuedId, busyAtStop, atCall>>
    /\ UNCHANGED <<gwVars, monVars>>

AtomicEndHotReload(t) ==
    \/ EndCall(t)
    \/ EndLoadState(t)
    \/ EndStoreFinalizing(t)
    \/ RecordHotReloadTotal(t)
    \/ RecordHotReloadOutcome(t)
    \/ EndDecActive(t)
    \/ EndLoadPending(t)
    \/ EndDecPending(t)
    \/ EndStoreIdle(t)

(***************************************************************************)
(* AtomicCancelHotReload(HotReloadId); HotReloadId is only logged.         *)
(***************************************************************************)
\* the call, and std::lock_guard Lock(StateMutex)
CancelCall(t) ==
    /\ CanCall(t)
    /\ StateMutexAvailable
    /\ StateMutex' = t
    /\ hcalls' = hcalls + 1
    /\ hop' = [hop EXCEPT ![t] = "Cancel"]
    /\ hret' = [hret EXCEPT ![t] = "none"]
    /\ Goto(t, "c_load")
    /\ atCall' = [State |-> CurrentState, Active |-> ActiveHotReloads,
                  Pending |-> PendingHotReloads, Stats |-> Stats,
                  Undisturbed |-> TRUE]
    /\ UNCHANGED <<openSessions, maxIssuedId, busyAtStop>>
    /\ UNCHANGED <<hrShared, hrTasks, hrLocals>>
    /\ UNCHANGED <<gwVars, monVars>>

\* a cancel that counts itself in Stats.CancelledHotReloads before it looks at
\* the state, so that a cancel while Idle is counted too
CancelLoadStateCounting(t) ==
    /\ hpc[t] = "c_load"
    /\ CurrentStateValue' = [CurrentStateValue EXCEPT ![t] = CurrentState]
    /\ Stats' = [Stats EXCEPT !.CancelledHotReloads = @ + 1]
    /\ IF CurrentState = "Idle"
         THEN Goto(t, "unlock") /\ hret' = [hret EXCEPT ![t] = "true"]
         ELSE Goto(t, "c_store") /\ UNCHANGED hret
    /\ UNCHANGED <<CurrentState, CurrentType, ActiveHotReloads, PendingHotReloads,
                   CurrentHotReloadId, bIsSystemReady, bEmergencyStop,
                   ActiveHotReloadIds, StateMutex, hrTasks, hop, OutHotReloadId,
                   bSuccess, hcalls, hrGhost>>
    /\ UNCHANGED Tracker
    /\ UNCHANGED <<gwVars, monVars>>

\* CurrentStateValue = CurrentState.load(); if (CurrentStateValue == Idle) return true
CancelLoadState(t) ==
    /\ hpc[t] = "c_load"
    /\ CurrentStateValue' = [CurrentStateValue EXCEPT ![t] = CurrentState]
    /\ IF CurrentState = "Idle"
         THEN Goto(t, "unlock") /\ hret' = [hret EXCEPT ![t] = "true"]
         ELSE Goto(t, "c_store") /\ UNCHANGED hret
    /\ UNCHANGED <<hrShared, StateMutex, hrTasks, hop, OutHotReloadId, bSuccess,
                   hcalls, hrGhost>>
    /\ UNCHANGED Tracker
    /\ UNCHANGED <<gwVars, monVars>>

\* CurrentState.store(Cancelled)
CancelStoreCancelled(t) ==
    /\ hpc[t] = "c_store"
    /\ CurrentState' = "Cancelled"
    /\ Goto(t, "c_stat")
    /\ UNCHANGED <<CurrentType, ActiveHotReloads, PendingHotReloads,
                   CurrentHotReloadId, bIsSystemReady, bEmergencyStop,
                   ActiveHotReloadIds, Stats, StateMutex, hrTasks, hop, hret,
                   hrLocals, hcalls, hrGhost>>
    /\ UNCHANGED <<gwVars, monVars>>

\* Stats.CancelledHotReloads.fetch_add(1)
CancelRecord(t) ==
    /\ hpc[t] = "c_stat"
    /\ Stats' = [Stats EXCEPT !.CancelledHotReloads = @ + 1]
    /\ Goto(t, "c_aload")
    /\ UNCHANGED <<CurrentState, CurrentType, ActiveHotReloads, PendingHotReloads,
                   CurrentHotReloadId, bIsSystemReady, bEmergencyStop,
                   ActiveHotReloadIds, StateMutex, hrTasks, hop, hret, hrLocals,
                   hcalls, hrGhost>>
    /\ UNCHANGED <<gwVars, monVars>>

\* a Cancel that decrements ActiveHotReloads without looking at it
CancelLoadActiveUnchecked(t) ==
    /\ hpc[t] = "c_aload"
    /\ Goto(t, "c_adec")
    /\ UNCHANGED <<hrShared, StateMutex, hrTasks, hop, hret, hrLocals, hcalls,
                   hrGhost>>
    /\ UNCHANGED <<gwVars, monVars>>

\* if (ActiveHotReloads.load() > 0)
CancelLoadActive(t) ==
    /\ hpc[t] = "c_aload"
    /\ Goto(t, IF ActiveHotReloads > 0 THEN "c_adec" ELSE "c_idle")
    /\ UNCHANGED <<hrShared, StateMutex, hrTasks, hop, hret, hrLocals, hcalls,
                   hrGhost>>
    /\ UNCHANGED <<gwVars, monVars>>

\* ActiveHotReloads.fetch_sub(1)
CancelDecActive(t) ==
    /\ hpc[t] = "c_adec"
    /\ ActiveHotReloads' = ActiveHotReloads - 1
    /\ Goto(t, "c_idle")
    /\ UNCHANGED <<CurrentState, CurrentType, PendingHotReloads, CurrentHotReloadId,
                   bIsSystemReady, bEmergencyStop, ActiveHotReloadIds, Stats,
                   StateMutex, hrTasks, hop, hret, hrLocals, hcalls, hrGhost>>
    /\ UNCHANGED <<gwVars, monVars>>

\* CurrentState.store(Idle); return true.  The open session is closed.
CancelStoreIdle(t) ==
    /\ hpc[t] = "c_idle"
    /\ CurrentState' = "Idle"
    /\ hret' = [hret EXCEPT ![t] = "true"]
    /\ openSessions' = 0
    /\ Goto(t, "unlock")
    /\ UNCHANGED <<CurrentType, ActiveHotReloads, PendingHotReloads,
                   CurrentHotReloadId, bIsSystemReady, bEmergencyStop,
                   ActiveHotReloadIds, Stats, StateMutex, hrTasks, hop, hrLocals,
                   hcalls, maxIssuedId, busyAtStop, atCall>>
    /\ UNCHANGED <<gwVars, monVars>>

AtomicCancelHotReload(t) ==
    \/ CancelCall(t)
    \/ CancelLoadState(t)
    \/ CancelStoreCancelled(t)
    \/ CancelRecord(t)
    \/ CancelLoadActive(t)
    \/ CancelDecActive(t)
    \/ CancelStoreIdle(t)

(***************************************************************************)
(* EmergencyStopAllHotReloads(): takes no StateMutex.                      *)
(***************************************************************************)
EmergencyCall(t) ==
    /\ CanCall(t)
    /\ hcalls' = hcalls + 1
    /\ hop' = [hop EXCEPT ![t] = "Emergency"]
    /\ hret' = [hret EXCEPT ![t] = "none"]
    /\ Goto(t, "es_flag")
    /\ busyAtStop' = [busyAtStop EXCEPT
                         ![t] = ActiveHotReloads > 0 /\ PendingHotReloads > 0]
    /\ UNCHANGED <<hrShared, StateMutex, hrTasks, hrLocals, openSessions,
                   maxIssuedId, atCall>>
    /\ UNCHANGED <<gwVars, monVars>>

\* bEmergencyStop.store(true)
EmergencyStoreFlag(t) ==
    /\ hpc[t] = "es_flag"
    /\ bEmergencyStop' = TRUE
    /\ Goto(t, "es_state")
    /\ UNCHANGED <<CurrentState, CurrentType, ActiveHotReloads, PendingHotReloads,
                   CurrentHotReloadId, bIsSystemReady, ActiveHotReloadIds, Stats,
                   StateMutex, hrTasks, hop, hret, hrLocals, hcalls, hrGhost>>
    /\ UNCHANGED <<gwVars, monVars>>

\* CurrentState.store(Cancelled)
EmergencyStoreCancelled(t) ==
    /\ hpc[t] = "es_state"
    /\ CurrentState' = "Cancelled"
    /\ Goto(t, "es_active")
    /\ UNCHANGED <<CurrentType, ActiveHotReloads, PendingHotReloads,
                   CurrentHotReloadId, bIsSystemReady, bEmergencyStop,
                   ActiveHotReloadIds, Stats, StateMutex, hrTasks, hop, hret,
                   hrLocals, hcalls, openSessions, maxIssuedId,
                   busyAtStop>>
    /\ atCall' = [atCall EXCEPT !.Undisturbed = @ /\ StateMutex = NoThread]
    /\ UNCHANGED <<gwVars, monVars>>

\* ActiveHotReloads.store(0)
EmergencyZeroActive(t) ==
    /\ hpc[t] = "es_active"
    /\ ActiveHotReloads' = 0
    /\ Goto(t, "es_pending")
    /\ UNCHANGED <<CurrentState, CurrentType, PendingHotReloads, CurrentHotReloadId,
                   bIsSystemReady, bEmergencyStop, ActiveHotReloadIds, Stats,
                   StateMutex, hrTasks, hop, hret, hrLocals, hcalls, openSessions, maxIssuedId,
                   busyAtStop>>
    /\ atCall' = [atCall EXCEPT !.Undisturbed = @ /\ StateMutex = NoThread]
    /\ UNCHANGED <<gwVars, monVars>>

\* PendingHotReloads.store(0)
EmergencyZeroPending(t) ==
    /\ hpc[t] = "es_pending"
    /\ PendingHotReloads' = 0
    /\ Goto(t, "es_ids")
    /\ UNCHANGED <<CurrentState, CurrentType, ActiveHotReloads, CurrentHotReloadId,
                   bIsSystemReady, bEmergencyStop, ActiveHotReloadIds, Stats,
                   StateMutex, hrTasks, hop, hret, hrLocals, hcalls, openSessions, maxIssuedId,
                   busyAtStop>>
    /\ atCall' = [atCall EXCEPT !.Undisturbed = @ /\ StateMutex = NoThread]
    /\ UNCHANGED <<gwVars, monVars>>

\* { lock_guard ActiveLock(ActiveIdsMutex); ActiveHotReloadIds.clear(); }
EmergencyClearIds(t) ==
    /\ hpc[t] = "es_ids"
    /\ ActiveHotReloadIds' = {}
    /\ Goto(t, "es_task")
    /\ UNCHANGED <<CurrentState, CurrentType, ActiveHotReloads, PendingHotReloads,
                   CurrentHotReloadId, bIsSystemReady, bEmergencyStop, Stats,
                   StateMutex, hrTasks, hop, hret, hrLocals, hcalls, hrGhost>>
    /\ UNCHANGED <<gwVars, monVars>>

\* AsyncTask(AnyBackgroundThreadNormalTask, ...) is queued and the function
\* returns, to its caller Shutdown when Shutdown made the call
EmergencySchedule(t) ==
    /\ hpc[t] = "es_task"
    /\ resetSleeping' = resetSleeping + 1
    /\ IF hop[t] = "Shutdown"
         THEN Goto(t, "sd_ready") /\ UNCHANGED hop
         ELSE Goto(t, "idle") /\ hop' = [hop EXCEPT ![t] = "none"]
    /\ busyAtStop' = [busyAtStop EXCEPT ![t] = FALSE]
    /\ UNCHANGED <<hrShared, StateMutex, resetMid, hret, hrLocals, hcalls,
                   openSessions, maxIssuedId, atCall>>
    /\ UNCHANGED <<gwVars, monVars>>

\* the queued task, after Sleep(5.0f): bEmergencyStop.store(false)
ResetTaskClearFlag ==
    /\ resetSleeping > 0
    /\ resetSleeping' = resetSleeping - 1
    /\ resetMid' = resetMid + 1
    /\ bEmergencyStop' = FALSE
    /\ UNCHANGED <<CurrentState, CurrentType, ActiveHotReloads, PendingHotReloads,
                   CurrentHotReloadId, bIsSystemReady, ActiveHotReloadIds, Stats,
                   StateMutex, hpc, hop, hret, hrLocals, hcalls, hrGhost>>
    /\ UNCHANGED <<gwVars, monVars>>

\* the queued task: CurrentState.store(Idle)
ResetTaskStoreIdle ==
    /\ resetMid > 0
    /\ resetMid' = resetMid - 1
    /\ CurrentState' = "Idle"
    /\ UNCHANGED <<CurrentType, ActiveHotReloads, PendingHotReloads,
                   CurrentHotReloadId, bIsSystemReady, bEmergencyStop,
                   ActiveHotReloadIds, Stats, StateMutex, resetSleeping, hpc, hop,
                   hret, hrLocals, hcalls, openSessions, maxIssuedId,
                   busyAtStop>>
    /\ atCall' = [atCall EXCEPT !.Undisturbed = @ /\ StateMutex = NoThread]
    /\ UNCHANGED <<gwVars, monVars>>

EmergencyStopAllHotReloads(t) ==
    \/ EmergencyCall(t)
    \/ EmergencyStoreFlag(t)
    \/ EmergencyStoreCancelled(t)
    \/ EmergencyZeroActive(t)
    \/ EmergencyZeroPending(t)
    \/ EmergencyClearIds(t)
    \/ EmergencySchedule(t)

(***************************************************************************)
(* Shutdown(): takes no StateMutex.  ExportDiagnosticsReport only reads.   *)
(***************************************************************************)
\* the call, and bEmergencyStop.store(true)
ShutdownCall(t) ==
    /\ CanCall(t)
    /\ hcalls' = hcalls + 1
    /\ hop' = [hop EXCEPT ![t] = "Shutdown"]
    /\ hret' = [hret EXCEPT ![t] = "none"]
    /\ bEmergencyStop' = TRUE
    /\ Goto(t, "sd_wait")
    /\ UNCHANGED <<CurrentState, CurrentType, ActiveHotReloads, PendingHotReloads,
                   CurrentHotReloadId, bIsSystemReady, ActiveHotReloadIds, Stats,
                   StateMutex, hrTasks, hrLocals, hrGhost>>
    /\ UNCHANGED <<gwVars, monVars>>

\* while (ActiveHotReloads.load() > 0 && elapsed < MaxWaitTime) Sleep(0.1f):
\* the loop is left when the count is seen at zero or the 30 s have passed
ShutdownWait(t) ==
    /\ hpc[t] = "sd_wait"
    /\ Goto(t, "sd_remaining")
    /\ UNCHANGED <<hrShared, StateMutex, hrTasks, hop, hret, hrLocals, hcalls,
                   hrGhost>>
    /\ UNCHANGED <<gwVars, monVars>>

\* RemainingHotReloads = ActiveHotReloads.load(); if (> 0) EmergencyStopAllHotReloads()
ShutdownLoadRemaining(t) ==
    /\ hpc[t] = "sd_remaining"
    /\ Goto(t, IF ActiveHotReloads > 0 THEN "es_flag" ELSE "sd_ready")
    /\ UNCHANGED <<hrShared, StateMutex, hrTasks, hop, hret, hrLocals, hcalls,
                   hrGhost>>
    /\ UNCHANGED <<gwVars, monVars>>

\* bIsSystemReady.store(false)
ShutdownStoreNotReady(t) ==
    /\ hpc[t] = "sd_ready"
    /\ bIsSystemReady' = FALSE
    /\ Goto(t, "idle")
    /\ hop' = [hop EXCEPT ![t] = "none"]
    /\ UNCHANGED <<CurrentState, CurrentType, ActiveHotReloads, PendingHotReloads,
                   CurrentHotReloadId, bEmergencyStop, ActiveHotReloadIds, Stats,
                   StateMutex, hrTasks, hret, hrLocals, hcalls, hrGhost>>
    /\ UNCHANGED <<gwVars, monVars>>

Shutdown(t) ==
    \/ ShutdownCall(t)
    \/ ShutdownWait(t)
    \/ ShutdownLoadRemaining(t)
    \/ ShutdownStoreNotReady(t)

(***************************************************************************)
(* Initialize(): under StateMutex, one store after the other.              *)
(* PlatformState and the assembly tables are not part of this model.       *)
(***************************************************************************)
InitializeCall(t) ==
    /\ CanCall(t)
    /\ StateMutexAvailable
    /\ StateMutex' = t
    /\ hcalls' = hcalls + 1
    /\ hop' = [hop EXCEPT ![t] = "Initialize"]
    /\ hret' = [hret EXCEPT ![t] = "none"]
    /\ Goto(t, "i_state")
    /\ UNCHANGED <<hrShared, hrTasks, hrLocals, hrGhost>>
    /\ UNCHANGED <<gwVars, monVars>>

InitializeStores(t) ==
    /\ \/ /\ hpc[t] = "i_state"
          /\ CurrentState' = "Idle"
          /\ Goto(t, "i_type")
          /\ UNCHANGED <<CurrentType, ActiveHotReloads, PendingHotReloads,
                         CurrentHotReloadId, bIsSystemReady, bEmergencyStop,
                         ActiveHotReloadIds, Stats>>
       \/ /\ hpc[t] = "i_type"
          /\ CurrentType' = "Full"
          /\ Goto(t, "i_active")
          /\ UNCHANGED <<CurrentState, ActiveHotReloads, PendingHotReloads,
                         CurrentHotReloadId, bIsSystemReady, bEmergencyStop,
                         ActiveHotReloadIds, Stats>>
       \/ /\ hpc[t] = "i_active"
          /\ ActiveHotReloads' = 0
          /\ Goto(t, "i_pending")
          /\ UNCHANGED <<CurrentState, CurrentType, PendingHotReloads,
                         CurrentHotReloadId, bIsSystemReady, bEmergencyStop,
                         ActiveHotReloadIds, Stats>>
       \/ /\ hpc[t] = "i_pending"
          /\ PendingHotReloads' = 0
          /\ Goto(t, "i_id")
          /\ UNCHANGED <<CurrentState, CurrentType, ActiveHotReloads,
                         CurrentHotReloadId, bIsSystemReady, bEmergencyStop,
                         ActiveHotReloadIds, Stats>>
       \/ /\ hpc[t] = "i_id"
          /\ CurrentHotReloadId' = 0
          /\ Goto(t, "i_ready")
          /\ UNCHANGED <<CurrentState, CurrentType, ActiveHotReloads,
                         PendingHotReloads, bIsSystemReady, bEmergencyStop,
                         ActiveHotReloadIds, Stats>>
       \/ /\ hpc[t] = "i_ready"
          /\ bIsSystemReady' = TRUE
          /\ Goto(t, "i_emerg")
          /\ UNCHANGED <<CurrentState, CurrentType, ActiveHotReloads,
                         PendingHotReloads, CurrentHotReloadId, bEmergencyStop,
                         ActiveHotReloadIds, Stats>>
       \/ /\ hpc[t] = "i_emerg"
          /\ bEmergencyStop' = FALSE
          /\ Goto(t, "i_ids")
          /\ UNCHANGED <<CurrentState, CurrentType, ActiveHotReloads,
                         PendingHotReloads, CurrentHotReloadId, bIsSystemReady,
                         ActiveHotReloadIds, Stats>>
       \/ /\ hpc[t] = "i_ids"
          /\ ActiveHotReloadIds' = {}
          /\ Goto(t, "i_stats")
          /\ UNCHANGED <<CurrentState, CurrentType, ActiveHotReloads,
                         PendingHotReloads, CurrentHotReloadId, bIsSystemReady,
                         bEmergencyStop, Stats>>
       \/ /\ hpc[t] = "i_stats"
          /\ Stats' = FHotReloadStats
          /\ Goto(t, "unlock")
          /\ UNCHANGED <<CurrentState, CurrentType, ActiveHotReloads,
                         PendingHotReloads, CurrentHotReloadId, bIsSystemReady,
                         bEmergencyStop, ActiveHotReloadIds>>
    /\ UNCHANGED <<StateMutex, hrTasks, hop, hret, hrLocals, hcalls, hrGhost>>
    /\ UNCHANGED <<gwVars, monVars>>

Initialize(t) ==
    \/ InitializeCall(t)
    \/ InitializeStores(t)

\* ResetStatistics(): Stats = FHotReloadStats{}, without any lock
ResetStatistics(t) ==
    /\ CanCall(t)
    /\ hcalls' = hcalls + 1
    /\ hret' = [hret EXCEPT ![t] = "none"]
    /\ Stats' = FHotReloadStats
    /\ UNCHANGED <<CurrentState, CurrentType, ActiveHotReloads, PendingHotReloads,
                   CurrentHotReloadId, bIsSystemReady, bEmergencyStop,
                   ActiveHotReloadIds, StateMutex, hrTasks, hpc, hop, hrLocals,
                   hrGhost>>
    /\ UNCHANGED <<gwVars, monVars>>

\* FCSAtomicHotReloadState::ValidateStateConsistency(): the number of issues
\* it counts when it reads the state, the counter and the id set as they are
ValidateStateConsistency ==
    (IF CurrentState = "Idle" /\ ActiveHotReloads > 0 THEN 1 ELSE 0)
    + (IF CurrentState # "Idle" /\ ActiveHotReloads = 0 THEN 1 ELSE 0)
    + (IF Cardinality(ActiveHotReloadIds) # ActiveHotReloads THEN 1 ELSE 0)

(***************************************************************************)
(* FScopedHotReloadTracker and ATOMIC_HOT_RELOAD_OPERATION(Type, Operation) *)
(* The tracker is an object of one thread; its calls of AtomicEndHotReload *)
(* go through the steps of AtomicEndHotReload above.                       *)
(***************************************************************************)
MaxMarks == 2          \* MarkSuccess/MarkFailed calls on one tracker

\* State.AtomicEndHotReload(HotReloadId, ok, ElapsedTime) called by the
\* tracker of thread t, which is left as the record after
TrackerEnd(t, ok, after) ==
    /\ hpc[t] = "idle"
    /\ hcalls < MaxCalls
    /\ StateMutexAvailable
    /\ StateMutex' = t
    /\ hcalls' = hcalls + 1
    /\ hop' = [hop EXCEPT ![t] = "End"]
    /\ hret' = [hret EXCEPT ![t] = "none"]
    /\ bSuccess' = [bSuccess EXCEPT ![t] = ok]
    /\ Goto(t, "e_load")
    /\ atCall' = [State |-> CurrentState, Active |-> ActiveHotReloads,
                  Pending |-> PendingHotReloads, Stats |-> Stats,
                  Undisturbed |-> TRUE]
    /\ Tracker' = [Tracker EXCEPT ![t] = [after EXCEPT !.Ends = Append(@, ok)]]
    /\ UNCHANGED <<openSessions, maxIssuedId, busyAtStop>>
    /\ UNCHANGED <<hrShared, hrTasks, CurrentStateValue, OutHotReloadId>>

\* a tracker whose Mark calls leave bIsActive set
TrackerMarkStaysActive(t, ok) ==
    /\ hpc[t] = "idle"
    /\ Tracker[t].phase = "alive"
    /\ Tracker[t].Marks < MaxMarks
    /\ LET marked == [Tracker[t] EXCEPT
                        !.Marks = @ + 1,
                        !.Marked = IF @ = "none"
                                     THEN (IF ok THEN "success" ELSE "failed")
                                     ELSE @]
       IN  TrackerEnd(t, ok, marked)

\* MarkSuccess() (ok) and MarkFailed() (not ok):
\* if (bIsActive) { State.AtomicEndHotReload(HotReloadId, ok, ElapsedTime);
\*                  bIsActive = false; }
TrackerMark(t, ok) ==
    /\ hpc[t] = "idle"
    /\ Tracker[t].phase = "alive"
    /\ Tracker[t].Marks < MaxMarks
    /\ LET marked == [Tracker[t] EXCEPT
                        !.Marks = @ + 1,
                        !.Marked = IF @ = "none"
                                     THEN (IF ok THEN "success" ELSE "failed")
                                     ELSE @]
       IN  IF Tracker[t].bIsActive
             THEN TrackerEnd(t, ok, [marked EXCEPT !.bIsActive = FALSE])
             ELSE /\ Tracker' = [Tracker EXCEPT ![t] = marked]
                  /\ UNCHANGED <<hrShared, StateMutex, hrTasks, hpc, hop, hret,
                                 CurrentStateValue, OutHotReloadId, bSuccess,
                                 hcalls, hrGhost>>

\* ~FScopedHotReloadTracker(): if (bIsActive) { State.AtomicEndHotReload(
\* HotReloadId, false, ElapsedTime); ActiveHotReloadIds.erase(HotReloadId); }
TrackerDestructor(t) ==
    \/ /\ hpc[t] = "idle"
       /\ Tracker[t].phase = "alive"
       /\ IF Tracker[t].bIsActive
            THEN TrackerEnd(t, FALSE, [Tracker[t] EXCEPT !.phase = "ending"])
            ELSE /\ Tracker' = [Tracker EXCEPT ![t] = FScopedHotReloadTracker]
                 /\ UNCHANGED <<hrShared, StateMutex, hrTasks, hpc, hop, hret,
                                CurrentStateValue, OutHotReloadId, bSuccess,
                                hcalls, hrGhost>>
    \/ /\ hpc[t] = "idle"
       /\ Tracker[t].phase = "ending"
       /\ ActiveHotReloadIds' = ActiveHotReloadIds \ {Tracker[t].HotReloadId}
       /\ Tracker' = [Tracker EXCEPT ![t] = FScopedHotReloadTracker]
       /\ UNCHANGED <<CurrentState, CurrentType, ActiveHotReloads,
                      PendingHotReloads, CurrentHotReloadId, bIsSystemReady,
                      bEmergencyStop, Stats, StateMutex, hrTasks, hpc, hop, hret,
                      CurrentStateValue, OutHotReloadId, bSuccess, hcalls,
                      hrGhost>>

\* ATOMIC_HOT_RELOAD_OPERATION(Type, Operation): AtomicBeginHotReload; if it
\* returned true, the tracker's constructor, which inserts the id into
\* ActiveHotReloadIds; Operation, which returns or throws; MarkSuccess or
\* MarkFailed; the tracker's destructor.  A tracker can also be marked again
\* or destroyed without a mark, as its class allows.
AtomicHotReloadOperation(t) ==
    /\ \/ /\ CanCall(t)
          /\ Tracker[t].phase = "none"
          /\ hcalls' = hcalls + 1
          /\ OutHotReloadId' = [OutHotReloadId EXCEPT ![t] = 0]
          /\ IF bIsSystemReady
               THEN /\ Goto(t, "b_emerg")
                    /\ hop' = [hop EXCEPT ![t] = "Begin"]
                    /\ hret' = [hret EXCEPT ![t] = "none"]
               ELSE Return(t, "false")
          /\ Tracker' = [Tracker EXCEPT ![t].phase = "begin"]
          /\ UNCHANGED <<hrShared, StateMutex, hrTasks, CurrentStateValue,
                         bSuccess, hrGhost>>
       \/ /\ hpc[t] = "idle"
          /\ Tracker[t].phase = "begin"
          /\ IF hret[t] = "true"
               THEN /\ ActiveHotReloadIds' =
                         ActiveHotReloadIds \cup {OutHotReloadId[t]}
                    /\ Tracker' = [Tracker EXCEPT ![t] =
                         [FScopedHotReloadTracker EXCEPT
                            !.phase = "alive",
                            !.HotReloadId = OutHotReloadId[t],
                            !.bIsActive = TRUE]]
               ELSE /\ Tracker' = [Tracker EXCEPT ![t] = FScopedHotReloadTracker]
                    /\ UNCHANGED ActiveHotReloadIds
          /\ UNCHANGED <<CurrentState, CurrentType, ActiveHotReloads,
                         PendingHotReloads, CurrentHotReloadId, bIsSystemReady,
                         bEmergencyStop, Stats, StateMutex, hrTasks, hpc, hop,
                         hret, CurrentStateValue, OutHotReloadId, bSuccess,
                         hcalls, hrGhost>>
       \/ \E ok \in BOOLEAN : TrackerMark(t, ok)
       \/ TrackerDestructor(t)
    /\ UNCHANGED <<gwVars, monVars>>

(***************************************************************************)
(* Specifications of the hot-reload state machine.                         *)
(***************************************************************************)
vars == <<hrVars, gwVars, monVars>>

Init == InitHR /\ InitGW /\ InitMonitor

\* threads that call only AtomicBeginHotReload/AtomicEndHotReload/AtomicCancelHotReload
NextSession ==
    \E t \in Threads :
        \/ AtomicBeginHotReload(t)
        \/ AtomicEndHotReload(t)
        \/ AtomicCancelHotReload(t)
        \/ LeaveLockGuard(t)

SpecSession == Init /\ [][NextSession]_vars

\* threads that run ATOMIC_HOT_RELOAD_OPERATION and call Begin/End/Cancel
SpecTracker ==
    Init /\ [][\E t \in Threads :
                 \/ AtomicHotReloadOperation(t)
                 \/ AtomicBeginHotReload(t)
                 \/ AtomicEndHotReload(t)
                 \/ AtomicCancelHotReload(t)
                 \/ LeaveLockGuard(t)
            ]_vars

\* threads that call Begin/End/Cancel and EmergencyStopAllHotReloads, and the
\* delayed resets that EmergencyStopAllHotReloads schedules
NextStop ==
    \/ \E t \in Threads :
        \/ AtomicBeginHotReload(t)
        \/ AtomicEndHotReload(t)
        \/ AtomicCancelHotReload(t)
        \/ LeaveLockGuard(t)
        \/ EmergencyStopAllHotReloads(t)
    \/ ResetTaskClearFlag
    \/ ResetTaskStoreIdle

SpecStop == Init /\ [][NextStop]_vars

\* threads that call any public operation of the state machine
NextHR ==
    \/ \E t \in Threads :
        \/ AtomicBeginHotReload(t)
        \/ AtomicEndHotReload(t)
        \/ AtomicCancelHotReload(t)
        \/ LeaveLockGuard(t)
        \/ EmergencyStopAllHotReloads(t)
        \/ Shutdown(t)
        \/ Initialize(t)
        \/ ResetStatistics(t)
    \/ ResetTaskClearFlag
    \/ ResetTaskStoreIdle

SpecHR == Init /\ [][NextHR]_vars

(***************************************************************************)
(* The callback gateway, FCSThreadSafeManagedCallbacks.                    *)
(* The eight Safe* wrappers share one shape: CanAcceptNewCallback(), the   *)
(* FScopedCallbackTracker constructor, the wrapped foreign call inside     *)
(* try/catch, RecordCallbackResult(), the tracker's destructor.  The       *)
(* execution-time statistics (doubles) are left out of the state.          *)
(***************************************************************************)
CanCallGateway(t) == gpc[t] = "idle" /\ gcalls < MaxGatewayCalls

GGoto(t, label) == gpc' = [gpc EXCEPT ![t] = label]

\* the wrapper returns value; its locals and its tracker are gone
GReturn(t, value) ==
    /\ gpc' = [gpc EXCEPT ![t] = "idle"]
    /\ gop' = [gop EXCEPT ![t] = "none"]
    /\ Result' = [Result EXCEPT ![t] = value]
    /\ CallbackId' = [CallbackId EXCEPT ![t] = 0]
    /\ ActiveCount' = [ActiveCount EXCEPT ![t] = 0]
    /\ Outcome' = [Outcome EXCEPT ![t] = "none"]
    /\ Elapsed' = [Elapsed EXCEPT ![t] = 0]

\* one more wrapper has returned value
Returns(value) == [returned EXCEPT ![value] = @ + 1]

\* the caller is inside a Safe* wrapper, admitted or not yet decided
InWrapper(t) == gop[t] \in Wrappers

\* the wrapped foreign call of the caller is executing
InForeignCall(t) == gpc[t] = "g_incall"

\* the call of a wrapper, and CanAcceptNewCallback(): !bIsInitialized.load()
SafeCall(t) ==
    /\ CanCallGateway(t)
    /\ gcalls' = gcalls + 1
    /\ IF bIsInitialized
         THEN /\ \E w \in Wrappers : gop' = [gop EXCEPT ![t] = w]
              /\ GGoto(t, "g_shut")
              /\ Result' = [Result EXCEPT ![t] = "none"]
              /\ UNCHANGED <<CallbackId, ActiveCount, Outcome, Elapsed>>
         ELSE GReturn(t, "TooManyConcurrentCalls")
    /\ UNCHANGED <<gwShared, CallbackMutex, forceTerminated, hrVars, monVars>>
    /\ returned' = IF bIsInitialized THEN returned
                   ELSE Returns("TooManyConcurrentCalls")

\* CanAcceptNewCallback(): || bIsShuttingDown.load()  -> return false
AcceptLoadShuttingDown(t) ==
    /\ gpc[t] = "g_shut"
    /\ IF bIsShuttingDown
         THEN GReturn(t, "TooManyConcurrentCalls")
         ELSE GGoto(t, "g_count") /\ UNCHANGED <<gop, gwLocals>>
    /\ UNCHANGED <<gwShared, CallbackMutex, gcalls, forceTerminated, hrVars,
                   monVars>>
    /\ returned' = IF bIsShuttingDown THEN Returns("TooManyConcurrentCalls")
                   ELSE returned

\* an admission check that counts the call it turns away
AcceptLoadActiveCallsCounting(t) ==
    /\ gpc[t] = "g_count"
    /\ IF CallbackStats.CurrentActiveCalls < Config.MaxConcurrentCallbacks
         THEN /\ GGoto(t, "g_id")
              /\ UNCHANGED <<gop, gwLocals, CallbackStats>>
         ELSE /\ GReturn(t, "TooManyConcurrentCalls")
              /\ CallbackStats' = [CallbackStats EXCEPT !.CurrentActiveCalls = @ + 1]
    /\ UNCHANGED <<bIsInitialized, bIsShuttingDown, Config, ActiveCallbackIds,
                   NextCallbackId, CallbackMutex, gcalls, forceTerminated, hrVars,
                   monVars>>
    /\ returned' = IF CallbackStats.CurrentActiveCalls < Config.MaxConcurrentCallbacks
                   THEN returned ELSE Returns("TooManyConcurrentCalls")

\* CanAcceptNewCallback(): CurrentActiveCalls.load() < Config.MaxConcurrentCallbacks
AcceptLoadActiveCalls(t) ==
    /\ gpc[t] = "g_count"
    /\ IF CallbackStats.CurrentActiveCalls < Config.MaxConcurrentCallbacks
         THEN GGoto(t, "g_id") /\ UNCHANGED <<gop, gwLocals>>
         ELSE GReturn(t, "TooManyConcurrentCalls")
    /\ UNCHANGED <<gwShared, CallbackMutex, gcalls, forceTerminated, hrVars,
                   monVars>>
    /\ returned' = IF CallbackStats.CurrentActiveCalls < Config.MaxConcurrentCallbacks
                   THEN returned ELSE Returns("TooManyConcurrentCalls")

\* FScopedCallbackTracker(): CallbackId(NextCallbackId.fetch_add(1))
TrackerTakeId(t) ==
    /\ gpc[t] = "g_id"
    /\ CallbackId' = [CallbackId EXCEPT ![t] = NextCallbackId]
    /\ NextCallbackId' = NextCallbackId + 1
    /\ GGoto(t, "g_inc")
    /\ UNCHANGED <<bIsInitialized, bIsShuttingDown, CallbackStats, Config,
                   ActiveCallbackIds, CallbackMutex, gop, Result, ActiveCount,
                   Outcome, Elapsed, gcalls, forceTerminated, hrVars, monVars>>
    /\ UNCHANGED returned

\* FScopedCallbackTracker(): ActiveCount = CurrentActiveCalls.fetch_add(1) + 1
TrackerIncActive(t) ==
    /\ gpc[t] = "g_inc"
    /\ CallbackStats' = [CallbackStats EXCEPT !.CurrentActiveCalls = @ + 1]
    /\ ActiveCount' = [ActiveCount EXCEPT ![t] = CallbackStats.CurrentActiveCalls + 1]
    /\ GGoto(t, "g_maxload")
    /\ UNCHANGED <<bIsInitialized, bIsShuttingDown, Config, ActiveCallbackIds,
                   NextCallbackId, CallbackMutex, gop, Result, CallbackId, Outcome,
                   Elapsed, gcalls, forceTerminated, hrVars, monVars>>
    /\ UNCHANGED returned

\* FCallbackStats::RecordConcurrentCall: if (ActiveCalls > MaxConcurrentCalls.load())
RecordConcurrentCallLoad(t) ==
    /\ gpc[t] = "g_maxload"
    /\ GGoto(t, IF ActiveCount[t] > CallbackStats.MaxConcurrentCalls
                  THEN "g_maxstore" ELSE "g_add")
    /\ UNCHANGED <<gwShared, CallbackMutex, gop, gwLocals, gcalls, forceTerminated,
                   hrVars, monVars>>
    /\ UNCHANGED returned

\* FCallbackStats::RecordConcurrentCall: MaxConcurrentCalls.store(ActiveCalls)
RecordConcurrentCallStore(t) ==
    /\ gpc[t] = "g_maxstore"
    /\ CallbackStats' = [CallbackStats EXCEPT !.MaxConcurrentCalls = ActiveCount[t]]
    /\ GGoto(t, "g_add")
    /\ UNCHANGED <<bIsInitialized, bIsShuttingDown, Config, ActiveCallbackIds,
                   NextCallbackId, CallbackMutex, gop, gwLocals, gcalls,
                   forceTerminated, hrVars, monVars>>
    /\ UNCHANGED returned

\* FScopedCallbackTracker(): { FScopeLock; ActiveCallbackIds.Add(CallbackId); }
\* and the constructor, with its local ActiveCount, is left
TrackerAddId(t) ==
    /\ gpc[t] = "g_add"
    /\ ActiveCallbackIds' = ActiveCallbackIds \cup {CallbackId[t]}
    /\ ActiveCount' = [ActiveCount EXCEPT ![t] = 0]
    /\ GGoto(t, "g_launch")
    /\ UNCHANGED <<bIsInitialized, bIsShuttingDown, CallbackStats, Config,
                   NextCallbackId, CallbackMutex, gop, Result, CallbackId, Outcome,
                   Elapsed, gcalls, forceTerminated, hrVars, monVars>>
    /\ UNCHANGED returned

\* try { FCSManagedCallbacks::ManagedCallbacks.<call>(...) : the call is entered
LaunchForeignCall(t) ==
    /\ gpc[t] = "g_launch"
    /\ GGoto(t, "g_incall")
    /\ UNCHANGED <<gwShared, CallbackMutex, gop, gwLocals, gcalls, forceTerminated,
                   hrVars, monVars>>
    /\ UNCHANGED returned

\* the result a wrapper gives to a wrapped call that came back after elapsed
\* time units with outcome "ok" (non-null pointer, status 0), "bad" (null
\* pointer, non-zero status) or "threw" (caught by catch (...))
Classify(w, outcome, elapsed, config) ==
    IF outcome = "threw" THEN "Failed"
    ELSE IF w \in InvokeWrappers
           THEN IF config.bEnableTimeout /\ elapsed > CallbackTimeout
                  THEN "Timeout"
                  ELSE IF outcome = "ok" THEN "Success" ELSE "Failed"
    ELSE IF w \in PointerWrappers
           THEN IF outcome = "ok" THEN "Success" ELSE "Failed"
    ELSE "Success"

\* the outcomes the wrapped call of a wrapper can have
Outcomes(w) == IF w \in VoidWrappers THEN {"ok", "threw"} ELSE {"ok", "bad", "threw"}

\* the wrapped call comes back (or throws) and the wrapper decides its Result
ForeignCallReturns(t) ==
    /\ gpc[t] = "g_incall"
    /\ \E o \in Outcomes(gop[t]), e \in Durations :
          /\ Outcome' = [Outcome EXCEPT ![t] = o]
          /\ Elapsed' = [Elapsed EXCEPT ![t] = e]
          /\ Result' = [Result EXCEPT ![t] = Classify(gop[t], o, e, Config)]
    /\ GGoto(t, "g_record")
    /\ UNCHANGED <<gwShared, CallbackMutex, gop, CallbackId, ActiveCount, gcalls,
                   forceTerminated, hrVars, monVars>>
    /\ UNCHANGED returned

\* t goes on to label after CallbackCondition.notify_one(): one of the
\* threads blocked in the wait_until of WaitForCallbackSlot, if there is one,
\* is woken
NotifyOne(t, label) ==
    LET blocked == {w \in Callers : gpc[w] = "w_wait"}
    IN  IF blocked = {}
          THEN GGoto(t, label)
          ELSE \E w \in blocked :
                 gpc' = [gpc EXCEPT ![t] = label, ![w] = "w_woken"]

\* RecordCallbackResult(Result, ElapsedTime): if (Config.bEnableStatistics)
\* RecordExecution: TotalCallbacksExecuted.fetch_add(1).  ElapsedTime and the
\* value the wrapped call gave are not read after this call.
RecordExecutionTotal(t) ==
    /\ gpc[t] = "g_record"
    /\ IF Config.bEnableStatistics
         THEN /\ CallbackStats' = [CallbackStats EXCEPT !.TotalCallbacksExecuted = @ + 1]
              /\ GGoto(t, "g_outcome")
         ELSE /\ UNCHANGED CallbackStats
              /\ NotifyOne(t, "g_dec")
    /\ Elapsed' = [Elapsed EXCEPT ![t] = 0]
    /\ Outcome' = [Outcome EXCEPT ![t] = "none"]
    /\ UNCHANGED <<bIsInitialized, bIsShuttingDown, Config, ActiveCallbackIds,
                   NextCallbackId, CallbackMutex, gop, Result, CallbackId,
                   ActiveCount, gcalls, forceTerminated, hrVars, monVars>>
    /\ UNCHANGED returned

\* FCallbackStats::RecordExecution: switch (Result) ... fetch_add(1)
RecordExecutionOutcome(t) ==
    /\ gpc[t] = "g_outcome"
    /\ CallbackStats' =
         CASE Result[t] = "Success" ->
                [CallbackStats EXCEPT !.SuccessfulCallbacks = @ + 1]
           [] Result[t] = "Failed" ->
                [CallbackStats EXCEPT !.FailedCallbacks = @ + 1]
           [] Result[t] = "Timeout" ->
                [CallbackStats EXCEPT !.TimeoutCallbacks = @ + 1]
           [] Result[t] = "TooManyConcurrentCalls" ->
                [CallbackStats EXCEPT !.RejectedCallbacks = @ + 1]
           [] OTHER -> CallbackStats
    /\ NotifyOne(t, "g_dec")
    /\ UNCHANGED <<bIsInitialized, bIsShuttingDown, Config, ActiveCallbackIds,
                   NextCallbackId, CallbackMutex, gop, gwLocals, gcalls,
                   forceTerminated, hrVars, monVars>>
    /\ UNCHANGED returned

\* ~FScopedCallbackTracker(): CurrentActiveCalls.fetch_sub(1)
TrackerDecActive(t) ==
    /\ gpc[t] = "g_dec"
    /\ CallbackStats' = [CallbackStats EXCEPT !.CurrentActiveCalls = @ - 1]
    /\ GGoto(t, "g_remove")
    /\ UNCHANGED <<bIsInitialized, bIsShuttingDown, Config, ActiveCallbackIds,
                   NextCallbackId, CallbackMutex, gop, gwLocals, gcalls,
                   forceTerminated, hrVars, monVars>>
    /\ UNCHANGED returned

\* ~FScopedCallbackTracker(): { FScopeLock; ActiveCallbackIds.Remove(CallbackId); }
\* and the wrapper returns its Result
TrackerRemoveId(t) ==
    /\ gpc[t] = "g_remove"
    /\ ActiveCallbackIds' = ActiveCallbackIds \ {CallbackId[t]}
    /\ GReturn(t, Result[t])
    /\ UNCHANGED <<bIsInitialized, bIsShuttingDown, CallbackStats, Config,
                   NextCallbackId, CallbackMutex, gcalls, forceTerminated, hrVars,
                   monVars>>
    /\ returned' = Returns(Result[t])

SafeWrapper(t) ==
    \/ SafeCall(t)
    \/ AcceptLoadShuttingDown(t)
    \/ AcceptLoadActiveCalls(t)
    \/ TrackerTakeId(t)
    \/ TrackerIncActive(t)
    \/ RecordConcurrentCallLoad(t)
    \/ RecordConcurrentCallStore(t)
    \/ TrackerAddId(t)
    \/ LaunchForeignCall(t)
    \/ ForeignCallReturns(t)
    \/ RecordExecutionTotal(t)
    \/ RecordExecutionOutcome(t)
    \/ TrackerDecActive(t)
    \/ TrackerRemoveId(t)

\* std::unique_lock<std::mutex> Lock(CallbackMutex) can be taken
CallbackMutexAvailable == CallbackMutex = NoThread

(***************************************************************************)
(* FCSThreadSafeManagedCallbacks::Initialize(InConfig), under CallbackMutex *)
(***************************************************************************)
\* the call, the lock, and if (bIsInitialized.load()) return true
GatewayInitializeCall(t) ==
    /\ CanCallGateway(t)
    /\ CallbackMutexAvailable
    /\ gcalls' = gcalls + 1
    /\ IF bIsInitialized
         THEN GReturn(t, "true") /\ UNCHANGED CallbackMutex
         ELSE /\ CallbackMutex' = t
              /\ GGoto(t, "gi_config")
              /\ gop' = [gop EXCEPT ![t] = "Initialize"]
              /\ Result' = [Result EXCEPT ![t] = "none"]
              /\ UNCHANGED <<CallbackId, ActiveCount, Outcome, Elapsed>>
    /\ UNCHANGED <<gwShared, forceTerminated, hrVars, monVars>>
    /\ UNCHANGED returned

GatewayInitializeStores(t) ==
    /\ \/ /\ gpc[t] = "gi_config"
          /\ \E InConfig \in Configurations : Config' = InConfig
          /\ GGoto(t, "gi_stats")
          /\ UNCHANGED <<bIsInitialized, bIsShuttingDown, CallbackStats,
                         ActiveCallbackIds>>
       \/ /\ gpc[t] = "gi_stats"
          /\ CallbackStats' = FCallbackStats
          /\ GGoto(t, "gi_ids")
          /\ UNCHANGED <<bIsInitialized, bIsShuttingDown, Config, ActiveCallbackIds>>
       \/ /\ gpc[t] = "gi_ids"
          /\ ActiveCallbackIds' = {}
          /\ GGoto(t, "gi_shut")
          /\ UNCHANGED <<bIsInitialized, bIsShuttingDown, CallbackStats, Config>>
       \/ /\ gpc[t] = "gi_shut"
          /\ bIsShuttingDown' = FALSE
          /\ GGoto(t, "gi_init")
          /\ UNCHANGED <<bIsInitialized, CallbackStats, Config, ActiveCallbackIds>>
    /\ UNCHANGED <<NextCallbackId, CallbackMutex, gop, gwLocals, gcalls,
                   forceTerminated, hrVars, monVars>>
    /\ returned' = IF gpc[t] = "gi_stats" THEN NoneReturned ELSE returned

\* bIsInitialized.store(true); return true, which releases the lock
GatewayInitializeDone(t) ==
    /\ gpc[t] = "gi_init"
    /\ bIsInitialized' = TRUE
    /\ CallbackMutex' = NoThread
    /\ GReturn(t, "true")
    /\ UNCHANGED <<bIsShuttingDown, CallbackStats, Config, ActiveCallbackIds,
                   NextCallbackId, gcalls, forceTerminated, hrVars, monVars>>
    /\ UNCHANGED returned

GatewayInitialize(t) ==
    \/ GatewayInitializeCall(t)
    \/ GatewayInitializeStores(t)
    \/ GatewayInitializeDone(t)

(***************************************************************************)
(* ForceTerminateAllCallbacks(), called directly or by Shutdown            *)
(***************************************************************************)
ForceTerminateCall(t) ==
    /\ CanCallGateway(t)
    /\ gcalls' = gcalls + 1
    /\ gop' = [gop EXCEPT ![t] = "ForceTerminate"]
    /\ Result' = [Result EXCEPT ![t] = "none"]
    /\ GGoto(t, "gf_ids")
    /\ UNCHANGED <<gwShared, CallbackMutex, CallbackId, ActiveCount, Outcome,
                   Elapsed, forceTerminated, hrVars, monVars>>
    /\ UNCHANGED returned

\* { FScopeLock ActiveLock(&ActiveCallbacksMutex); ActiveCallbackIds.Empty(); }
ForceTerminateClearIds(t) ==
    /\ gpc[t] = "gf_ids"
    /\ ActiveCallbackIds' = {}
    /\ forceTerminated' = TRUE
    /\ GGoto(t, "gf_zero")
    /\ UNCHANGED <<bIsInitialized, bIsShuttingDown, CallbackStats, Config,
                   NextCallbackId, CallbackMutex, gop, gwLocals, gcalls, hrVars,
                   monVars>>
    /\ UNCHANGED returned

\* Stats.CurrentActiveCalls.store(0), and the return to Shutdown or the caller
ForceTerminateZeroActive(t) ==
    /\ gpc[t] = "gf_zero"
    /\ CallbackStats' = [CallbackStats EXCEPT !.CurrentActiveCalls = 0]
    /\ IF gop[t] = "Shutdown"
         THEN GGoto(t, "gs_done") /\ UNCHANGED <<gop, gwLocals>>
         ELSE GReturn(t, "none")
    /\ UNCHANGED <<bIsInitialized, bIsShuttingDown, Config, ActiveCallbackIds,
                   NextCallbackId, CallbackMutex, gcalls, forceTerminated, hrVars,
                   monVars>>
    /\ UNCHANGED returned

ForceTerminateAllCallbacks(t) ==
    \/ ForceTerminateCall(t)
    \/ ForceTerminateClearIds(t)
    \/ ForceTerminateZeroActive(t)

(***************************************************************************)
(* FCSThreadSafeManagedCallbacks::Shutdown()                               *)
(* ExportDiagnosticsReport only reads.                                     *)
(***************************************************************************)
\* the call, the lock, and if (!bIsInitialized.load()) return
GatewayShutdownCall(t) ==
    /\ CanCallGateway(t)
    /\ CallbackMutexAvailable
    /\ gcalls' = gcalls + 1
    /\ IF bIsInitialized
         THEN /\ CallbackMutex' = t
              /\ GGoto(t, "gs_flag")
              /\ gop' = [gop EXCEPT ![t] = "Shutdown"]
              /\ Result' = [Result EXCEPT ![t] = "none"]
              /\ UNCHANGED <<CallbackId, ActiveCount, Outcome, Elapsed>>
         ELSE GReturn(t, "none") /\ UNCHANGED CallbackMutex
    /\ UNCHANGED <<gwShared, forceTerminated, hrVars, monVars>>
    /\ UNCHANGED returned

\* bIsShuttingDown.store(true); the lock's scope ends
GatewayShutdownStoreFlag(t) ==
    /\ gpc[t] = "gs_flag"
    /\ bIsShuttingDown' = TRUE
    /\ CallbackMutex' = NoThread
    /\ GGoto(t, "gs_wait")
    /\ UNCHANGED <<bIsInitialized, CallbackStats, Config, ActiveCallbackIds,
                   NextCallbackId, gop, gwLocals, gcalls, forceTerminated, hrVars,
                   monVars>>
    /\ UNCHANGED returned

\* a Shutdown that waits for the active calls without a time limit
GatewayShutdownWaitUnbounded(t) ==
    /\ gpc[t] = "gs_wait"
    /\ CallbackStats.CurrentActiveCalls <= 0
    /\ GGoto(t, "gs_remaining")
    /\ UNCHANGED <<gwShared, CallbackMutex, gop, gwLocals, gcalls, forceTerminated,
                   hrVars, monVars>>
    /\ UNCHANGED returned

\* while (CurrentActiveCalls.load() > 0 && elapsed < MaxWaitTime) Sleep(0.1f):
\* the loop is left when the count is seen at zero or the 10 s have passed
GatewayShutdownWait(t) ==
    /\ gpc[t] = "gs_wait"
    /\ GGoto(t, "gs_remaining")
    /\ UNCHANGED <<gwShared, CallbackMutex, gop, gwLocals, gcalls, forceTerminated,
                   hrVars, monVars>>
    /\ UNCHANGED returned

\* RemainingCalls = CurrentActiveCalls.load(); if (> 0) ForceTerminateAllCallbacks()
GatewayShutdownLoadRemaining(t) ==
    /\ gpc[t] = "gs_remaining"
    /\ GGoto(t, IF CallbackStats.CurrentActiveCalls > 0 THEN "gf_ids" ELSE "gs_done")
    /\ UNCHANGED <<gwShared, CallbackMutex, gop, gwLocals, gcalls, forceTerminated,
                   hrVars, monVars>>
    /\ UNCHANGED returned

\* bIsInitialized.store(false)
GatewayShutdownDone(t) ==
    /\ gpc[t] = "gs_done"
    /\ bIsInitialized' = FALSE
    /\ GReturn(t, "none")
    /\ UNCHANGED <<bIsShuttingDown, CallbackStats, Config, ActiveCallbackIds,
                   NextCallbackId, CallbackMutex, gcalls, forceTerminated, hrVars,
                   monVars>>
    /\ UNCHANGED returned

GatewayShutdown(t) ==
    \/ GatewayShutdownCall(t)
    \/ GatewayShutdownStoreFlag(t)
    \/ GatewayShutdownWait(t)
    \/ GatewayShutdownLoadRemaining(t)
    \/ GatewayShutdownDone(t)

(***************************************************************************)
(* FCSThreadSafeManagedCallbacks::WaitForCallbackSlot(TimeoutSeconds):     *)
(*   unique_lock Lock(CallbackMutex);                                      *)
(*   return CallbackCondition.wait_until(Lock, TimeoutTime, pred);         *)
(* that is: while (!pred()) if (wait_until(Lock, TimeoutTime) == timeout)  *)
(* return pred(); return true; the lock is free while the thread is        *)
(* blocked.  A blocked thread goes on when it is notified (NotifyOne),     *)
(* when the timeout passes, or spuriously.                                 *)
(***************************************************************************)
\* pred: CurrentActiveCalls.load() < Config.MaxConcurrentCallbacks
\*       || bIsShuttingDown.load()
SlotAvailable ==
    \/ CallbackStats.CurrentActiveCalls < Config.MaxConcurrentCallbacks
    \/ bIsShuttingDown

WaitForCallbackSlot(t) ==
    /\ \/ /\ CanCallGateway(t)
          /\ CallbackMutexAvailable
          /\ gcalls' = gcalls + 1
          /\ CallbackMutex' = t
          /\ GGoto(t, "w_pred")
          /\ gop' = [gop EXCEPT ![t] = "WaitForCallbackSlot"]
          /\ Result' = [Result EXCEPT ![t] = "none"]
          /\ UNCHANGED <<CallbackId, ActiveCount, Outcome, Elapsed>>
       \/ /\ gpc[t] = "w_pred"
          /\ IF SlotAvailable
               THEN GReturn(t, "true") /\ CallbackMutex' = NoThread
               ELSE /\ GGoto(t, "w_block")
                    /\ UNCHANGED <<CallbackMutex, gop, gwLocals>>
          /\ UNCHANGED gcalls
       \/ /\ gpc[t] = "w_block"
          /\ CallbackMutex' = NoThread
          /\ GGoto(t, "w_wait")
          /\ UNCHANGED <<gop, gwLocals, gcalls>>
       \/ /\ gpc[t] = "w_wait"
          /\ \E next \in {"w_woken", "w_timeout"} : GGoto(t, next)
          /\ UNCHANGED <<CallbackMutex, gop, gwLocals, gcalls>>
       \/ /\ gpc[t] = "w_woken"
          /\ CallbackMutexAvailable
          /\ CallbackMutex' = t
          /\ GGoto(t, "w_pred")
          /\ UNCHANGED <<gop, gwLocals, gcalls>>
       \/ /\ gpc[t] = "w_timeout"
          /\ CallbackMutexAvailable
          /\ GReturn(t, IF SlotAvailable THEN "true" ELSE "false")
          /\ UNCHANGED <<CallbackMutex, gcalls>>
    /\ UNCHANGED <<gwShared, forceTerminated, returned, hrVars, monVars>>

\* UpdateConfiguration(NewConfig): { lock_guard Lock(CallbackMutex); Config = NewConfig; }
UpdateConfiguration(t) ==
    /\ CanCallGateway(t)
    /\ CallbackMutexAvailable
    /\ gcalls' = gcalls + 1
    /\ \E NewConfig \in Configurations : Config' = NewConfig
    /\ Result' = [Result EXCEPT ![t] = "none"]
    /\ UNCHANGED <<bIsInitialized, bIsShuttingDown, CallbackStats,
                   ActiveCallbackIds, NextCallbackId, CallbackMutex, gpc, gop,
                   CallbackId, ActiveCount, Outcome, Elapsed, forceTerminated,
                   hrVars, monVars>>
    /\ UNCHANGED returned

\* FCSThreadSafeManagedCallbacks::ResetStatistics(): Stats = FCallbackStats{},
\* without any lock; CurrentActiveCalls is one of the fields of Stats
GatewayResetStatistics(t) ==
    /\ CanCallGateway(t)
    /\ gcalls' = gcalls + 1
    /\ CallbackStats' = FCallbackStats
    /\ Result' = [Result EXCEPT ![t] = "none"]
    /\ UNCHANGED <<bIsInitialized, bIsShuttingDown, Config, ActiveCallbackIds,
                   NextCallbackId, CallbackMutex, gpc, gop, CallbackId,
                   ActiveCount, Outcome, Elapsed, forceTerminated, hrVars,
                   monVars>>
    /\ returned' = NoneReturned

(***************************************************************************)
(* Specification of the callback gateway.                                  *)
(***************************************************************************)
NextGW ==
    \E t \in Callers :
        \/ SafeWrapper(t)
        \/ GatewayInitialize(t)
        \/ GatewayShutdown(t)
        \/ ForceTerminateAllCallbacks(t)
        \/ UpdateConfiguration(t)
        \/ GatewayResetStatistics(t)

SpecGW == Init /\ [][NextGW]_vars

\* the gateway as constructed, or as a completed Initialize(InConfig) left it
InitStarted ==
    /\ InitHR
    /\ InitMonitor
    /\ bIsInitialized \in BOOLEAN
    /\ bIsShuttingDown = FALSE
    /\ CallbackStats = FCallbackStats
    /\ IF bIsInitialized THEN Config \in Configurations
                         ELSE Config = FConcurrencyConfig
    /\ ActiveCallbackIds = {}
    /\ NextCallbackId = 1
    /\ CallbackMutex = NoThread
    /\ gpc = [t \in Callers |-> "idle"]
    /\ gop = [t \in Callers |-> "none"]
    /\ Result = [t \in Callers |-> "none"]
    /\ CallbackId = [t \in Callers |-> 0]
    /\ ActiveCount = [t \in Callers |-> 0]
    /\ Outcome = [t \in Callers |-> "none"]
    /\ Elapsed = [t \in Callers |-> 0]
    /\ gcalls = 0
    /\ forceTerminated = FALSE
    /\ returned = NoneReturned

\* callers that only call the wrappers
NextCalls == \E t \in Callers : SafeWrapper(t)

SpecCalls == InitStarted /\ [][NextCalls]_vars

\* callers of one wrapper, WaitForCallbackSlot, Shutdown and
\* ForceTerminateAllCallbacks.  Every thread keeps running, the wrapped foreign
\* calls return, and a thread blocked in wait_until goes on when it is
\* notified; that its timeout passes or that it wakes spuriously is possible
\* at any time but never certain.
SpecWait ==
    /\ InitStarted
    /\ [][\E t \in Callers :
             \/ SafeWrapper(t) /\ gop'[t] \in {"none", "SafeInvokeManagedEvent"}
             \/ WaitForCallbackSlot(t)
             \/ GatewayShutdown(t)
             \/ ForceTerminateAllCallbacks(t)
        ]_vars
    /\ \A t \in Callers :
         /\ WF_vars(gpc[t] # "idle" /\ SafeWrapper(t))
         /\ WF_vars(gpc[t] \notin {"idle", "w_wait"} /\ WaitForCallbackSlot(t))
         /\ WF_vars(gpc[t] # "idle"
                      /\ (GatewayShutdown(t) \/ ForceTerminateAllCallbacks(t)))

\* callers of one wrapper (the wrappers share their code path), Initialize,
\* Shutdown and ForceTerminateAllCallbacks; a thread inside Shutdown or
\* ForceTerminateAllCallbacks keeps running, while a wrapped foreign call
\* need never return
SpecDrain ==
    /\ InitStarted
    /\ [][\E t \in Callers :
             \/ SafeWrapper(t) /\ gop'[t] \in {"none", "SafeInvokeManagedEvent"}
             \/ GatewayInitialize(t)
             \/ GatewayShutdown(t)
             \/ ForceTerminateAllCallbacks(t)
        ]_vars
    /\ \A t \in Callers :
         WF_vars(gpc[t] # "idle"
                   /\ (GatewayShutdown(t) \/ ForceTerminateAllCallbacks(t)))

(***************************************************************************)
(* Properties of the hot-reload state machine.                             *)
(***************************************************************************)
\* C1: with MaxConcurrentHotReloads = 1 and threads that call only
\* AtomicBeginHotReload, AtomicEndHotReload and AtomicCancelHotReload, at most
\* one session is open at a time: from a Begin that returns true until an
\* End/Cancel stores Idle no other Begin returns true, and a Begin that is about
\* to return true finds no session open.
C1_OneSessionOpen ==
    /\ openSessions <= MaxConcurrentHotReloads
    /\ \A t \in Threads :
          (hpc[t] = "unlock" /\ hop[t] = "Begin" /\ hret[t] = "true")
              => openSessions = 0

\* a session is open and a second Begin is about to return false, queued
C1_SecondBeginQueued ==
    /\ openSessions = 1
    /\ PendingHotReloads > 0
    /\ \E t \in Threads :
          hpc[t] = "unlock" /\ hop[t] = "Begin" /\ hret[t] = "false"

\* C2: in every reachable state, the middle of a Begin, End, Cancel or
\* EmergencyStopAllHotReloads included, the state is Idle exactly when
\* ActiveHotReloads is 0.
C2_IdleIffNoneActive == (CurrentState = "Idle") <=> (ActiveHotReloads = 0)

\* C4: when EmergencyStopAllHotReloads was called with a session active and
\* requests queued, then at its return ActiveHotReloads = 0,
\* PendingHotReloads = 0 and the state is Cancelled, whatever other threads do
\* in the meantime.
C4_StoppedAtReturn ==
    [][\A t \in Threads :
          (hpc[t] = "es_task" /\ hop[t] = "Emergency" /\ busyAtStop[t]
             /\ hpc'[t] = "idle")
              => /\ ActiveHotReloads' = 0
                 /\ PendingHotReloads' = 0
                 /\ CurrentState' = "Cancelled"]_vars

\* C5: an AtomicCancelHotReload that finds the state Idle returns true, and
\* neither its read of the state nor its return changes the state,
\* ActiveHotReloads, PendingHotReloads or a statistics counter.
C5_CancelWhileIdle ==
    [][\A t \in Threads :
          /\ (hpc[t] = "c_load" /\ CurrentState = "Idle" /\ hpc'[t] # "c_load")
                => /\ UNCHANGED hrShared
                   /\ hpc'[t] = "unlock"
                   /\ hret'[t] = "true"
          /\ (hpc[t] = "unlock" /\ hop[t] = "Cancel"
                /\ CurrentStateValue[t] = "Idle" /\ hpc'[t] = "idle")
                => /\ UNCHANGED hrShared
                   /\ hret'[t] = "true"]_vars

\* a cancel has found the state Idle and is about to return true
C5_CancelFoundIdle ==
    \E t \in Threads :
        /\ hpc[t] = "unlock" /\ hop[t] = "Cancel"
        /\ CurrentStateValue[t] = "Idle" /\ hret[t] = "true"

\* C6: every change of the reload state made by Begin, End, Cancel,
\* EmergencyStopAllHotReloads or its delayed reset is a transition that
\* ValidateStateTransition allows.
C6_OnlyAllowedTransitions ==
    [][CurrentState' # CurrentState
         => ValidateStateTransition(CurrentState, CurrentState')]_vars

\* C7: a Begin that returns true returns an id greater than every id returned
\* by an earlier successful Begin, over any sequence of operations.
C7_IdsIncrease ==
    \A t \in Threads :
        (hpc[t] = "unlock" /\ hop[t] = "Begin" /\ hret[t] = "true")
            => OutHotReloadId[t] > maxIssuedId

(***************************************************************************)
(* Properties of the callback gateway.                                     *)
(***************************************************************************)
\* C3: the number of wrapped calls in flight at the same time, and the
\* CurrentActiveCalls counter, never exceed MaxConcurrentCallbacks.
C3_AdmissionBound ==
    /\ Cardinality({t \in Callers : InForeignCall(t)}) <= Config.MaxConcurrentCallbacks
    /\ CallbackStats.CurrentActiveCalls <= Config.MaxConcurrentCallbacks

\* C8: no wrapped call is launched once Shutdown has stored
\* bIsShuttingDown = true.
C8_NoLaunchAfterShutdown ==
    [][\A t \in Callers :
          (~InForeignCall(t) /\ InForeignCall(t)') => ~bIsShuttingDown]_vars

\* C9: for every wrapper, with timeout detection enabled, a wrapped call that
\* returns normally after more than CallbackTimeoutSeconds yields Timeout.
C9_OverrunIsTimeout ==
    [][\A t \in Callers :
          (InForeignCall(t) /\ ~InForeignCall(t)' /\ Config.bEnableTimeout
             /\ Outcome'[t] # "threw" /\ Elapsed'[t] > CallbackTimeout)
              => Result'[t] = "Timeout"]_vars

\* C10: whenever no gateway call is in flight and ForceTerminateAllCallbacks
\* has not run, CurrentActiveCalls = 0 and ActiveCallbackIds is empty.
C10_QuiescentMeansZero ==
    ((\A t \in Callers : ~InWrapper(t)) /\ ~forceTerminated)
        => (CallbackStats.CurrentActiveCalls = 0 /\ ActiveCallbackIds = {})


(***************************************************************************)
(* FCSConcurrencyMonitor.  Times are milliseconds of                       *)
(* high_resolution_clock; a section guarded by one of the monitor's        *)
(* mutexes is one step.  Call stacks, names and the detection-time         *)
(* averages are only logged and are left out of the state; a report's      *)
(* Description is the tuple of the values formatted into it.               *)
(***************************************************************************)
MCanCall(t) == mpc[t] = "idle" /\ mcalls < MaxMonitorCalls

\* the operation of the thread returns value
MReturn(t, value) ==
    /\ mpc' = [mpc EXCEPT ![t] = "idle"]
    /\ mop' = [mop EXCEPT ![t] = "none"]
    /\ mret' = [mret EXCEPT ![t] = value]
    /\ Resource' = [Resource EXCEPT ![t] = NoResource]
    /\ AccessPattern' = [AccessPattern EXCEPT ![t] = "none"]
    /\ LockObject' = [LockObject EXCEPT ![t] = NoResource]
    /\ Now' = [Now EXCEPT ![t] = 0]
    /\ TotalViolations' = [TotalViolations EXCEPT ![t] = 0]

\* what the latest step examined and the reports it handed to ReportViolation
Emitted(step, examined, Reports) ==
    [step |-> step, examined |-> examined, reports |-> Reports]

\* FMonitoringStats::RecordViolation(Type, DetectionTimeMs)
RecordViolation(stats, Type) ==
    [stats EXCEPT
       !.TotalViolationsDetected = @ + 1,
       !.RaceConditionViolations = IF Type = "RaceCondition" THEN @ + 1 ELSE @,
       !.DeadlockViolations = IF Type = "DeadlockPotential" THEN @ + 1 ELSE @,
       !.LockOrderViolations = IF Type = "LockOrderViolation" THEN @ + 1 ELSE @,
       !.ResourceLeakViolations = IF Type = "ResourceLeak" THEN @ + 1 ELSE @]

\* a ReportViolation that stores the report whatever its severity
ReportViolationAnySeverity(state, Report) ==
    LET size == Len(state.reports)
        kept == IF size >= MonitorConfig.MaxViolationReports
                  THEN SubSeq(state.reports, (size \div 2) + 1, size)
                  ELSE state.reports
    IN  [reports |-> Append(kept, Report),
         stats   |-> RecordViolation(state.stats, Report.Type)]

\* ReportViolation(Report) on the stored reports and the statistics: dropped
\* below MinReportSeverity; at size >= MaxViolationReports the first size / 2
\* reports are erased; push_back; Stats.RecordViolation(Report.Type, 0.0)
ReportViolation(state, Report) ==
    IF Report.Severity < MonitorConfig.MinReportSeverity
      THEN state
      ELSE LET size == Len(state.reports)
               kept == IF size >= MonitorConfig.MaxViolationReports
                         THEN SubSeq(state.reports, (size \div 2) + 1, size)
                         ELSE state.reports
           IN  [reports |-> Append(kept, Report),
                stats   |-> RecordViolation(state.stats, Report.Type)]

\* the calls of ReportViolation of one step, in their order
RECURSIVE ReportAll(_, _)
ReportAll(state, Reports) ==
    IF Reports = <<>>
      THEN state
      ELSE ReportAll(ReportViolation(state, Head(Reports)), Tail(Reports))

\* the loop of AnalyzeResourceAccessPatterns from index i on: the reports for
\* the adjacent pairs (i, i + 1), ..., in the order they are reported.
\* TimeDiff is the signed difference Access2.Timestamp - Access1.Timestamp.
RECURSIVE AnalyzePairs(_, _, _)
AnalyzePairs(r, AccessHistory, i) ==
    IF i >= Len(AccessHistory)
      THEN <<>>
      ELSE LET Access1 == AccessHistory[i]
               Access2 == AccessHistory[i + 1]
               TimeDiff == Access2.Timestamp - Access1.Timestamp
               Involved == <<Access1.ThreadId, Access2.ThreadId>>
               IsConflict ==
                   \/ Access1.AccessPattern = "Write" /\ Access2.AccessPattern # "Write"
                   \/ Access1.AccessPattern # "Write" /\ Access2.AccessPattern = "Write"
               race ==
                   IF /\ Access1.ThreadId # Access2.ThreadId
                      /\ Access1.AccessPattern \in {"Write", "ReadWrite"}
                      /\ Access2.AccessPattern \in {"Write", "ReadWrite"}
                      /\ TimeDiff < RaceWindowMs
                     THEN << [Type |-> "RaceCondition", Severity |-> Error,
                              ResourceName |-> r, InvolvedThreads |-> Involved,
                              Description |-> <<r, Access1.ThreadId,
                                                Access2.ThreadId, TimeDiff>>] >>
                     ELSE <<>>
               conflict ==
                   IF /\ Access1.ThreadId # Access2.ThreadId
                      /\ IsConflict
                      /\ TimeDiff < ConflictWindowMs
                     THEN << [Type |-> "UnsafeConcurrentAccess", Severity |-> Warning,
                              ResourceName |-> r, InvolvedThreads |-> Involved,
                              Description |-> <<r, Access1.ThreadId,
                                                Access2.ThreadId, TimeDiff>>] >>
                     ELSE <<>>
           IN  race \o conflict \o AnalyzePairs(r, AccessHistory, i + 1)

\* AnalyzeResourceAccessPatterns(Resource, AccessHistory): the adjacent pairs
\* of the most recent min(size, 10) records
AnalyzeResourceAccessPatterns(r, AccessHistory) ==
    IF Len(AccessHistory) < 2
      THEN <<>>
      ELSE AnalyzePairs(r, AccessHistory,
                        IF Len(AccessHistory) > RecentAccessWindow
                          THEN Len(AccessHistory) - RecentAccessWindow + 1
                          ELSE 1)

\* the configurations handed to FCSConcurrencyMonitor::Initialize and to
\* UpdateConfiguration
MonitorConfigurations ==
    {[FMonitoringConfig EXCEPT !.MaxViolationReports = cap,
                               !.MaxResourceHistorySize = 10 * window,
                               !.MinReportSeverity = severity] :
       cap \in 1..MaxReportCap, window \in 1..MaxHistoryWindow,
       severity \in {Warning, Error}}

\* Initialize(InConfig): false when already initialized; otherwise the
\* configuration is stored, the flags, containers and statistics are reset
\* and the calling thread is registered
MonitorInitialize(t) ==
    /\ MCanCall(t)
    /\ mcalls' = mcalls + 1
    /\ IF bMonitorInitialized
         THEN /\ MReturn(t, "false")
              /\ UNCHANGED <<monShared, lastAccess>>
         ELSE /\ \E InConfig \in MonitorConfigurations : MonitorConfig' = InConfig
              /\ bIsMonitoring' = FALSE
              /\ bShouldStop' = FALSE
              /\ ResourceAccessHistory' = [r \in Resources |-> <<>>]
              /\ ThreadLastActivity' = [u \in {t} |-> Clock]
              /\ ThreadLockOrder' = [u \in MonitorThreads |-> <<>>]
              /\ ViolationReports' = <<>>
              /\ MonitorStats' = FMonitoringStats
              /\ bMonitorInitialized' = TRUE
              /\ lastAccess' = <<>>
              /\ MReturn(t, "true")
    /\ emitted' = Emitted("Initialize", {}, <<>>)
    /\ UNCHANGED <<Clock, cpc, WakeTime, advances>>
    /\ UNCHANGED <<liveThreads, heldLocks, mtxVars>>
    /\ UNCHANGED <<hrVars, gwVars>>

\* StartMonitoring(), statement by statement; it takes no lock.  The thread
\* it creates starts at the test of its while loop.  When MonitoringThread
\* still owns a thread that was not joined, the assignment destroys a
\* joinable std::thread and std::terminate ends the process.
StartMonitoring(t) ==
    /\ \/ \* the call; if (!bIsInitialized.load()) return false
          /\ MCanCall(t)
          /\ mcalls' = mcalls + 1
          /\ IF ~bMonitorInitialized
               THEN /\ mret' = [mret EXCEPT ![t] = "false"]
                    /\ UNCHANGED <<mpc, mop>>
               ELSE /\ mpc' = [mpc EXCEPT ![t] = "sm_mon"]
                    /\ mop' = [mop EXCEPT ![t] = "StartMonitoring"]
                    /\ mret' = [mret EXCEPT ![t] = "none"]
          /\ UNCHANGED <<bShouldStop, bIsMonitoring, cpc, WakeTime, liveThreads>>
       \/ \* if (bIsMonitoring.load()) return true
          /\ mpc[t] = "sm_mon"
          /\ IF bIsMonitoring
               THEN /\ mpc' = [mpc EXCEPT ![t] = "idle"]
                    /\ mop' = [mop EXCEPT ![t] = "none"]
                    /\ mret' = [mret EXCEPT ![t] = "true"]
               ELSE /\ mpc' = [mpc EXCEPT ![t] = "sm_stop"]
                    /\ UNCHANGED <<mop, mret>>
          /\ UNCHANGED <<bShouldStop, bIsMonitoring, cpc, WakeTime, liveThreads,
                         mcalls>>
       \/ \* bShouldStop.store(false)
          /\ mpc[t] = "sm_stop"
          /\ bShouldStop' = FALSE
          /\ mpc' = [mpc EXCEPT ![t] = "sm_flag"]
          /\ UNCHANGED <<bIsMonitoring, cpc, WakeTime, liveThreads, mop, mret,
                         mcalls>>
       \/ \* bIsMonitoring.store(true)
          /\ mpc[t] = "sm_flag"
          /\ bIsMonitoring' = TRUE
          /\ mpc' = [mpc EXCEPT ![t] = "sm_thread"]
          /\ UNCHANGED <<bShouldStop, cpc, WakeTime, liveThreads, mop, mret,
                         mcalls>>
       \/ \* MonitoringThread = std::make_unique<std::thread>(...); return true
          /\ mpc[t] = "sm_thread"
          /\ liveThreads' = liveThreads + 1
          /\ IF liveThreads = 0
               THEN /\ cpc' = "sleep"
                    /\ WakeTime' = Clock
                    /\ mpc' = [mpc EXCEPT ![t] = "idle"]
                    /\ mop' = [mop EXCEPT ![t] = "none"]
                    /\ mret' = [mret EXCEPT ![t] = "true"]
               ELSE /\ cpc' = "terminated"
                    /\ mpc' = [u \in MonitorThreads |-> "terminated"]
                    /\ UNCHANGED <<WakeTime, mop, mret>>
          /\ UNCHANGED <<bShouldStop, bIsMonitoring, mcalls>>
    /\ emitted' = Emitted("StartMonitoring", {}, <<>>)
    /\ UNCHANGED <<bMonitorInitialized, MonitorConfig, MonitorStats,
                   ResourceAccessHistory, ThreadLastActivity, ThreadLockOrder,
                   ViolationReports, Clock, Resource, AccessPattern, LockObject,
                   Now, TotalViolations, advances, lastAccess, heldLocks, mtxVars>>
    /\ UNCHANGED <<hrVars, gwVars>>

\* StopMonitoring(), statement by statement; it takes no lock.  join()
\* returns when the monitoring thread has left its loop.
StopMonitoring(t) ==
    /\ \/ \* the call; if (!bIsMonitoring.load()) return
          /\ MCanCall(t)
          /\ mcalls' = mcalls + 1
          /\ IF ~bIsMonitoring
               THEN /\ mret' = [mret EXCEPT ![t] = "void"]
                    /\ UNCHANGED <<mpc, mop>>
               ELSE /\ mpc' = [mpc EXCEPT ![t] = "st_stop"]
                    /\ mop' = [mop EXCEPT ![t] = "StopMonitoring"]
                    /\ mret' = [mret EXCEPT ![t] = "none"]
          /\ UNCHANGED <<bShouldStop, bIsMonitoring, cpc, liveThreads>>
       \/ \* bShouldStop.store(true)
          /\ mpc[t] = "st_stop"
          /\ bShouldStop' = TRUE
          /\ mpc' = [mpc EXCEPT ![t] = "st_flag"]
          /\ UNCHANGED <<bIsMonitoring, cpc, liveThreads, mop, mret, mcalls>>
       \/ \* bIsMonitoring.store(false)
          /\ mpc[t] = "st_flag"
          /\ bIsMonitoring' = FALSE
          /\ mpc' = [mpc EXCEPT ![t] = "st_join"]
          /\ UNCHANGED <<bShouldStop, cpc, liveThreads, mop, mret, mcalls>>
       \/ \* if (MonitoringThread && MonitoringThread->joinable())
          \* { MonitoringThread->join(); MonitoringThread.reset(); }
          /\ mpc[t] = "st_join"
          /\ liveThreads > 0 => cpc = "stopped"
          /\ liveThreads' = 0
          /\ cpc' = "none"
          /\ mpc' = [mpc EXCEPT ![t] = "idle"]
          /\ mop' = [mop EXCEPT ![t] = "none"]
          /\ mret' = [mret EXCEPT ![t] = "void"]
          /\ UNCHANGED <<bShouldStop, bIsMonitoring, mcalls>>
    /\ emitted' = Emitted("StopMonitoring", {}, <<>>)
    /\ UNCHANGED <<bMonitorInitialized, MonitorConfig, MonitorStats,
                   ResourceAccessHistory, ThreadLastActivity, ThreadLockOrder,
                   ViolationReports, Clock, WakeTime, Resource, AccessPattern,
                   LockObject, Now, TotalViolations, advances, lastAccess, heldLocks, mtxVars>>
    /\ UNCHANGED <<hrVars, gwVars>>

\* UpdateConfiguration(NewConfig): Config = NewConfig, under no lock
MonitorUpdateConfiguration ==
    /\ \E NewConfig \in MonitorConfigurations \ {MonitorConfig} :
         MonitorConfig' = NewConfig
    /\ emitted' = Emitted("UpdateConfiguration", {}, <<>>)
    /\ UNCHANGED <<bMonitorInitialized, bIsMonitoring, bShouldStop, MonitorStats,
                   ResourceAccessHistory, ThreadLastActivity, ThreadLockOrder,
                   ViolationReports, Clock, cpc, WakeTime, mpc, mop, mret,
                   Resource, AccessPattern, LockObject, Now, TotalViolations,
                   mcalls, advances, lastAccess>>
    /\ UNCHANGED <<liveThreads, heldLocks, mtxVars>>
    /\ UNCHANGED <<hrVars, gwVars>>

\* RecordResourceAccess(Resource, ResourceName, AccessPattern) up to the
\* lock: returns when not monitoring; Now is read before ResourcesMutex is
\* taken
RecordResourceAccessCall(t) ==
    /\ MCanCall(t)
    /\ mcalls' = mcalls + 1
    /\ IF ~bIsMonitoring
         THEN MReturn(t, "void")
         ELSE /\ \E r \in Resources : Resource' = [Resource EXCEPT ![t] = r]
              /\ \E p \in EAccessPattern :
                    AccessPattern' = [AccessPattern EXCEPT ![t] = p]
              /\ Now' = [Now EXCEPT ![t] = Clock]
              /\ mpc' = [mpc EXCEPT ![t] = "a_lock"]
              /\ mop' = [mop EXCEPT ![t] = "RecordResourceAccess"]
              /\ mret' = [mret EXCEPT ![t] = "none"]
              /\ UNCHANGED <<LockObject, TotalViolations>>
    /\ emitted' = Emitted("RecordResourceAccess", {}, <<>>)
    /\ UNCHANGED <<monShared, Clock, cpc, WakeTime, advances, lastAccess>>
    /\ UNCHANGED <<liveThreads, heldLocks, mtxVars>>
    /\ UNCHANGED <<hrVars, gwVars>>

\* a RecordResourceAccess that merges a repeat by the same thread whatever
\* its access pattern
RecordResourceAccessLockedAnyPattern(t) ==
    /\ mpc[t] = "a_lock"
    /\ LET r == Resource[t]
           AccessHistory == ResourceAccessHistory[r]
           Access == [ThreadId |-> t, AccessPattern |-> AccessPattern[t],
                      Timestamp |-> Now[t], AccessCount |-> 1]
           LastAccess == AccessHistory[Len(AccessHistory)]
           merged == /\ AccessHistory # <<>>
                     /\ LastAccess.ThreadId = t
                     /\ Now[t] - LastAccess.Timestamp < MergeWindowMs
           pushed == Append(AccessHistory, Access)
           trimmed == IF Len(pushed) > MonitorConfig.MaxResourceHistorySize \div 10
                        THEN SubSeq(pushed, (Len(pushed) \div 2) + 1, Len(pushed))
                        ELSE pushed
           analysed == MonitorConfig.bEnableRaceConditionDetection
                         /\ Len(trimmed) >= 2
           Reports == IF analysed THEN AnalyzeResourceAccessPatterns(r, trimmed)
                                  ELSE <<>>
           after == ReportAll([reports |-> ViolationReports, stats |-> MonitorStats],
                              Reports)
       IN  IF merged
             THEN /\ ResourceAccessHistory' =
                       [ResourceAccessHistory EXCEPT
                          ![r][Len(AccessHistory)] =
                              [@ EXCEPT !.AccessCount = @ + 1, !.Timestamp = Now[t]]]
                  /\ emitted' = Emitted("RecordResourceAccess", {}, <<>>)
                  /\ UNCHANGED <<ViolationReports, MonitorStats>>
             ELSE /\ ResourceAccessHistory' =
                       [ResourceAccessHistory EXCEPT ![r] = trimmed]
                  /\ emitted' = Emitted("RecordResourceAccess",
                                        IF analysed THEN {r} ELSE {}, Reports)
                  /\ ViolationReports' = after.reports
                  /\ MonitorStats' = after.stats
    /\ lastAccess' = [r \in DOMAIN lastAccess \cup {Resource[t]} |->
                        IF r = Resource[t]
                          THEN IF r \in DOMAIN lastAccess
                                 THEN Append(lastAccess[r], Now[t])
                                 ELSE <<Now[t]>>
                          ELSE lastAccess[r]]
    /\ MReturn(t, "void")
    /\ UNCHANGED <<bMonitorInitialized, bIsMonitoring, bShouldStop, MonitorConfig,
                   ThreadLastActivity, ThreadLockOrder, Clock, cpc, WakeTime,
                   mcalls, advances>>
    /\ UNCHANGED <<liveThreads, heldLocks, mtxVars>>
    /\ UNCHANGED <<hrVars, gwVars>>

\* RecordResourceAccess under ResourcesMutex: a repeat by the same thread
\* with the same pattern less than 100 ms after the last record is merged
\* into it; otherwise the record is appended, the history is halved when it
\* is longer than MaxResourceHistorySize / 10, and with at least two records
\* the history is analysed
RecordResourceAccessLocked(t) ==
    /\ mpc[t] = "a_lock"
    /\ LET r == Resource[t]
           AccessHistory == ResourceAccessHistory[r]
           Access == [ThreadId |-> t, AccessPattern |-> AccessPattern[t],
                      Timestamp |-> Now[t], AccessCount |-> 1]
           LastAccess == AccessHistory[Len(AccessHistory)]
           merged == /\ AccessHistory # <<>>
                     /\ LastAccess.ThreadId = t
                     /\ LastAccess.AccessPattern = AccessPattern[t]
                     /\ Now[t] - LastAccess.Timestamp < MergeWindowMs
           pushed == Append(AccessHistory, Access)
           trimmed == IF Len(pushed) > MonitorConfig.MaxResourceHistorySize \div 10
                        THEN SubSeq(pushed, (Len(pushed) \div 2) + 1, Len(pushed))
                        ELSE pushed
           analysed == MonitorConfig.bEnableRaceConditionDetection
                         /\ Len(trimmed) >= 2
           Reports == IF analysed THEN AnalyzeResourceAccessPatterns(r, trimmed)
                                  ELSE <<>>
           after == ReportAll([reports |-> ViolationReports, stats |-> MonitorStats],
                              Reports)
       IN  IF merged
             THEN /\ ResourceAccessHistory' =
                       [ResourceAccessHistory EXCEPT
                          ![r][Len(AccessHistory)] =
                              [@ EXCEPT !.AccessCount = @ + 1, !.Timestamp = Now[t]]]
                  /\ emitted' = Emitted("RecordResourceAccess", {}, <<>>)
                  /\ UNCHANGED <<ViolationReports, MonitorStats>>
             ELSE /\ ResourceAccessHistory' =
                       [ResourceAccessHistory EXCEPT ![r] = trimmed]
                  /\ emitted' = Emitted("RecordResourceAccess",
                                        IF analysed THEN {r} ELSE {}, Reports)
                  /\ ViolationReports' = after.reports
                  /\ MonitorStats' = after.stats
    /\ lastAccess' = [r \in DOMAIN lastAccess \cup {Resource[t]} |->
                        IF r = Resource[t]
                          THEN IF r \in DOMAIN lastAccess
                                 THEN Append(lastAccess[r], Now[t])
                                 ELSE <<Now[t]>>
                          ELSE lastAccess[r]]
    /\ MReturn(t, "void")
    /\ UNCHANGED <<bMonitorInitialized, bIsMonitoring, bShouldStop, MonitorConfig,
                   ThreadLastActivity, ThreadLockOrder, Clock, cpc, WakeTime,
                   mcalls, advances>>
    /\ UNCHANGED <<liveThreads, heldLocks, mtxVars>>
    /\ UNCHANGED <<hrVars, gwVars>>

\* RecordLockAcquisition(LockObject, LockName) up to LockOrderMutex: returns
\* when not monitoring; ThreadLastActivity[CurrentThreadId] = now() under
\* ThreadsMutex; returns when lock-order validation is disabled
RecordLockAcquisitionCall(t) ==
    /\ MCanCall(t)
    /\ mcalls' = mcalls + 1
    /\ \E l \in Locks :
         /\ heldLocks' = [heldLocks EXCEPT ![t] = Append(@, l)]
         /\ IF ~bIsMonitoring
              THEN MReturn(t, "void") /\ UNCHANGED ThreadLastActivity
              ELSE /\ ThreadLastActivity' =
                        [u \in DOMAIN ThreadLastActivity \cup {t} |->
                           IF u = t THEN Clock ELSE ThreadLastActivity[u]]
                   /\ IF MonitorConfig.bEnableLockOrderValidation
                        THEN /\ LockObject' = [LockObject EXCEPT ![t] = l]
                             /\ mpc' = [mpc EXCEPT ![t] = "l_order"]
                             /\ mop' = [mop EXCEPT ![t] = "RecordLockAcquisition"]
                             /\ mret' = [mret EXCEPT ![t] = "none"]
                             /\ UNCHANGED <<Resource, AccessPattern, Now,
                                            TotalViolations>>
                        ELSE MReturn(t, "void")
    /\ emitted' = Emitted("RecordLockAcquisition", {}, <<>>)
    /\ UNCHANGED <<bMonitorInitialized, bIsMonitoring, bShouldStop, MonitorConfig,
                   MonitorStats, ResourceAccessHistory, ThreadLockOrder,
                   ViolationReports, Clock, cpc, WakeTime, advances, lastAccess>>
    /\ UNCHANGED <<liveThreads, mtxVars>>
    /\ UNCHANGED <<hrVars, gwVars>>

\* RecordLockAcquisition under LockOrderMutex: the lock is appended to the
\* thread's lock order; when it is lower than the lock acquired just before
\* it (LockOrder[size - 2]) a Warning LockOrderViolation is reported
RecordLockOrder(t) ==
    /\ mpc[t] = "l_order"
    /\ LET LockOrder == Append(ThreadLockOrder[t], LockObject[t])
           CurrLock == LockOrder[Len(LockOrder)]
           PrevLock == LockOrder[Len(LockOrder) - 1]
           Reports ==
               IF Len(LockOrder) >= 2 /\ CurrLock < PrevLock
                 THEN << [Type |-> "LockOrderViolation", Severity |-> Warning,
                          ResourceName |-> CurrLock, InvolvedThreads |-> <<t>>,
                          Description |-> <<t, CurrLock, PrevLock>>] >>
                 ELSE <<>>
           after == ReportAll([reports |-> ViolationReports, stats |-> MonitorStats],
                              Reports)
       IN  /\ ThreadLockOrder' = [ThreadLockOrder EXCEPT ![t] = LockOrder]
           /\ ViolationReports' = after.reports
           /\ MonitorStats' = after.stats
           /\ emitted' = Emitted("RecordLockAcquisition", {}, Reports)
    /\ MReturn(t, "void")
    /\ UNCHANGED <<bMonitorInitialized, bIsMonitoring, bShouldStop, MonitorConfig,
                   ResourceAccessHistory, ThreadLastActivity, Clock, cpc, WakeTime,
                   mcalls, advances, lastAccess>>
    /\ UNCHANGED <<liveThreads, heldLocks, mtxVars>>
    /\ UNCHANGED <<hrVars, gwVars>>

\* LockOrder without the first occurrence of LockObject
RECURSIVE EraseFirst(_, _)
EraseFirst(LockOrder, l) ==
    IF LockOrder = <<>> THEN <<>>
    ELSE IF Head(LockOrder) = l THEN Tail(LockOrder)
    ELSE <<Head(LockOrder)>> \o EraseFirst(Tail(LockOrder), l)

\* RecordLockRelease(LockObject, LockName): when monitoring and lock-order
\* validation is enabled, std::find and erase under LockOrderMutex
RecordLockRelease(t) ==
    /\ MCanCall(t)
    /\ mcalls' = mcalls + 1
    /\ \E l \in Locks :
         /\ heldLocks' = [heldLocks EXCEPT ![t] = EraseFirst(@, l)]
         /\ ThreadLockOrder' =
              IF bIsMonitoring /\ MonitorConfig.bEnableLockOrderValidation
                THEN [ThreadLockOrder EXCEPT ![t] = EraseFirst(@, l)]
                ELSE ThreadLockOrder
    /\ MReturn(t, "void")
    /\ emitted' = Emitted("RecordLockRelease", {}, <<>>)
    /\ UNCHANGED <<bMonitorInitialized, bIsMonitoring, bShouldStop, MonitorConfig,
                   MonitorStats, ResourceAccessHistory, ThreadLastActivity,
                   ViolationReports, Clock, cpc, WakeTime, advances, lastAccess>>
    /\ UNCHANGED <<liveThreads, mtxVars>>
    /\ UNCHANGED <<hrVars, gwVars>>

\* the reports of DetectRaceConditions for the resources r, r + 1, ...
RECURSIVE AnalyzeResources(_)
AnalyzeResources(r) ==
    IF r > NumResources
      THEN <<>>
      ELSE AnalyzeResourceAccessPatterns(r, ResourceAccessHistory[r])
             \o AnalyzeResources(r + 1)

\* DetectRaceConditions(), under ResourcesMutex: every history is analysed,
\* and Stats.RecordViolation(RaceCondition, ElapsedMs) is called at the end
\* whether or not anything was found
DetectRaceConditions ==
    /\ cpc = "races"
    /\ cpc' = "deadlocks"
    /\ IF MonitorConfig.bEnableRaceConditionDetection
         THEN LET Reports == AnalyzeResources(1)
                  after == ReportAll([reports |-> ViolationReports,
                                      stats |-> MonitorStats], Reports)
              IN  /\ ViolationReports' = after.reports
                  /\ MonitorStats' = RecordViolation(after.stats, "RaceCondition")
                  /\ emitted' = Emitted("DetectRaceConditions",
                                        {r \in Resources :
                                           ResourceAccessHistory[r] # <<>>}, Reports)
         ELSE /\ UNCHANGED <<ViolationReports, MonitorStats>>
              /\ emitted' = Emitted("DetectRaceConditions", {}, <<>>)
    /\ UNCHANGED <<bMonitorInitialized, bIsMonitoring, bShouldStop, MonitorConfig,
                   ResourceAccessHistory, ThreadLastActivity, ThreadLockOrder,
                   Clock, WakeTime, mpc, mop, mret, Resource, AccessPattern,
                   LockObject, Now, TotalViolations, mcalls, advances,
                   lastAccess>>
    /\ UNCHANGED <<liveThreads, heldLocks, mtxVars>>
    /\ UNCHANGED <<hrVars, gwVars>>

\* a deadlock check that reports every pair of distinct threads that both
\* hold locks, whether or not they hold a common one
RECURSIVE DeadlockPairsAnyLocks(_, _)
DeadlockPairsAnyLocks(Thread1, Thread2) ==
    IF Thread1 > NumMonitorThreads THEN <<>>
    ELSE IF Thread2 > NumMonitorThreads THEN DeadlockPairsAnyLocks(Thread1 + 1, 1)
    ELSE (IF /\ Thread1 # Thread2
             /\ ThreadLockOrder[Thread1] # <<>>
             /\ ThreadLockOrder[Thread2] # <<>>
            THEN << [Type |-> "DeadlockPotential", Severity |-> Error,
                     ResourceName |-> NoResource,
                     InvolvedThreads |-> <<Thread1, Thread2>>,
                     Description |-> <<Thread1, Thread2>>] >>
            ELSE <<>>)
         \o DeadlockPairsAnyLocks(Thread1, Thread2 + 1)

\* the reports of DetectDeadlockPotential for the ordered pairs of threads
\* from (Thread1, Thread2) on; CheckDeadlockBetweenThreads: both threads
\* hold locks and one lock is in both lock orders
RECURSIVE DeadlockPairs(_, _)
DeadlockPairs(Thread1, Thread2) ==
    IF Thread1 > NumMonitorThreads THEN <<>>
    ELSE IF Thread2 > NumMonitorThreads THEN DeadlockPairs(Thread1 + 1, 1)
    ELSE (IF /\ Thread1 # Thread2
             /\ \E i \in DOMAIN ThreadLockOrder[Thread1] :
                  \E j \in DOMAIN ThreadLockOrder[Thread2] :
                     ThreadLockOrder[Thread1][i] = ThreadLockOrder[Thread2][j]
            THEN << [Type |-> "DeadlockPotential", Severity |-> Error,
                     ResourceName |-> NoResource,
                     InvolvedThreads |-> <<Thread1, Thread2>>,
                     Description |-> <<Thread1, Thread2>>] >>
            ELSE <<>>)
         \o DeadlockPairs(Thread1, Thread2 + 1)

\* DetectDeadlockPotential(), under LockOrderMutex
DetectDeadlockPotential ==
    /\ cpc = "deadlocks"
    /\ cpc' = "leaks"
    /\ IF MonitorConfig.bEnableDeadlockDetection
         THEN LET Reports == DeadlockPairs(1, 1)
                  after == ReportAll([reports |-> ViolationReports,
                                      stats |-> MonitorStats], Reports)
              IN  /\ ViolationReports' = after.reports
                  /\ MonitorStats' =
                       IF Reports # <<>>
                         THEN RecordViolation(after.stats, "DeadlockPotential")
                         ELSE after.stats
                  /\ emitted' = Emitted("DetectDeadlockPotential", {}, Reports)
         ELSE /\ UNCHANGED <<ViolationReports, MonitorStats>>
              /\ emitted' = Emitted("DetectDeadlockPotential", {}, <<>>)
    /\ UNCHANGED <<bMonitorInitialized, bIsMonitoring, bShouldStop, MonitorConfig,
                   ResourceAccessHistory, ThreadLastActivity, ThreadLockOrder,
                   Clock, WakeTime, mpc, mop, mret, Resource, AccessPattern,
                   LockObject, Now, TotalViolations, mcalls, advances,
                   lastAccess>>
    /\ UNCHANGED <<liveThreads, heldLocks, mtxVars>>
    /\ UNCHANGED <<hrVars, gwVars>>

\* the reports of DetectResourceLeaks for the resources r, r + 1, ...: a
\* resource with a history whose last record is older than
\* ResourceAccessTimeoutSeconds
RECURSIVE LeakReports(_)
LeakReports(r) ==
    IF r > NumResources THEN <<>>
    ELSE LET AccessHistory == ResourceAccessHistory[r]
             TimeSinceLastAccess ==
                 Clock - AccessHistory[Len(AccessHistory)].Timestamp
         IN  (IF /\ AccessHistory # <<>>
                 /\ TimeSinceLastAccess > MonitorConfig.ResourceAccessTimeoutSeconds
                THEN << [Type |-> "ResourceLeak", Severity |-> Warning,
                         ResourceName |-> r, InvolvedThreads |-> <<>>,
                         Description |-> <<r, TimeSinceLastAccess>>] >>
                ELSE <<>>)
             \o LeakReports(r + 1)

\* DetectResourceLeaks(), under ResourcesMutex
DetectResourceLeaks ==
    /\ cpc = "leaks"
    /\ cpc' = "cleanup"
    /\ IF MonitorConfig.bEnableResourceTracking
         THEN LET Reports == LeakReports(1)
                  after == ReportAll([reports |-> ViolationReports,
                                      stats |-> MonitorStats], Reports)
              IN  /\ ViolationReports' = after.reports
                  /\ MonitorStats' =
                       IF Reports # <<>>
                         THEN RecordViolation(after.stats, "ResourceLeak")
                         ELSE after.stats
                  /\ emitted' = Emitted("DetectResourceLeaks", Resources, Reports)
         ELSE /\ UNCHANGED <<ViolationReports, MonitorStats>>
              /\ emitted' = Emitted("DetectResourceLeaks", {}, <<>>)
    /\ UNCHANGED <<bMonitorInitialized, bIsMonitoring, bShouldStop, MonitorConfig,
                   ResourceAccessHistory, ThreadLastActivity, ThreadLockOrder,
                   Clock, WakeTime, mpc, mop, mret, Resource, AccessPattern,
                   LockObject, Now, TotalViolations, mcalls, advances,
                   lastAccess>>
    /\ UNCHANGED <<liveThreads, heldLocks, mtxVars>>
    /\ UNCHANGED <<hrVars, gwVars>>

\* the records of AccessHistory that std::remove_if keeps: Age <= 300 s
RECURSIVE Unexpired(_)
Unexpired(AccessHistory) ==
    IF AccessHistory = <<>> THEN <<>>
    ELSE (IF Clock - Head(AccessHistory).Timestamp > AccessExpiryMs
            THEN <<>> ELSE <<Head(AccessHistory)>>)
         \o Unexpired(Tail(AccessHistory))

\* CleanupExpiredData(): access records older than 300 s are removed and a
\* resource left without records loses its entry; threads without activity
\* for more than 600 s lose their activity entry and their lock order.  The
\* cycle ends and sleep_for(DetectionIntervalSeconds) begins.
CleanupExpiredData ==
    /\ cpc = "cleanup"
    /\ cpc' = "sleep"
    /\ WakeTime' = Clock + MonitorConfig.DetectionIntervalSeconds
    /\ ResourceAccessHistory' =
         [r \in Resources |-> Unexpired(ResourceAccessHistory[r])]
    /\ LET expired == {u \in DOMAIN ThreadLastActivity :
                          Clock - ThreadLastActivity[u] > ThreadExpiryMs}
       IN  /\ ThreadLastActivity' =
                [u \in DOMAIN ThreadLastActivity \ expired |-> ThreadLastActivity[u]]
           /\ ThreadLockOrder' =
                [u \in MonitorThreads |->
                   IF u \in expired THEN <<>> ELSE ThreadLockOrder[u]]
    /\ emitted' = Emitted("CleanupExpiredData", {}, <<>>)
    /\ UNCHANGED <<bMonitorInitialized, bIsMonitoring, bShouldStop, MonitorConfig,
                   MonitorStats, ViolationReports, Clock, mpc, mop, mret, Resource,
                   AccessPattern, LockObject, Now, TotalViolations, mcalls,
                   advances, lastAccess>>
    /\ UNCHANGED <<liveThreads, heldLocks, mtxVars>>
    /\ UNCHANGED <<hrVars, gwVars>>

\* MonitoringThreadLoop(): sleep_for is over; while (!bShouldStop) the next
\* detection cycle begins
MonitoringThreadLoop ==
    /\ cpc = "sleep"
    /\ Clock >= WakeTime
    /\ cpc' = IF bShouldStop THEN "stopped" ELSE "races"
    /\ emitted' = Emitted("MonitoringThreadLoop", {}, <<>>)
    /\ UNCHANGED <<monShared, Clock, WakeTime, mpc, mop, mret, Resource,
                   AccessPattern, LockObject, Now, TotalViolations, mcalls,
                   advances, lastAccess>>
    /\ UNCHANGED <<liveThreads, heldLocks, mtxVars>>
    /\ UNCHANGED <<hrVars, gwVars>>

\* RunDetectionCycle() and the sleep after it
MonitoringThread ==
    \/ DetectRaceConditions
    \/ DetectDeadlockPotential
    \/ DetectResourceLeaks
    \/ CleanupExpiredData
    \/ MonitoringThreadLoop

\* time passes; a detection cycle is short against the steps of the clock
\* and runs within one reading of it
AdvanceClock ==
    /\ advances < MaxClockAdvances
    /\ cpc \in {"none", "sleep", "stopped"}
    /\ advances' = advances + 1
    /\ \E d \in ClockSteps : Clock' = Clock + d
    /\ emitted' = Emitted("none", {}, <<>>)
    /\ UNCHANGED <<monShared, cpc, WakeTime, mpc, mop, mret, Resource,
                   AccessPattern, LockObject, Now, TotalViolations, mcalls,
                   lastAccess>>
    /\ UNCHANGED <<liveThreads, heldLocks, mtxVars>>
    /\ UNCHANGED <<hrVars, gwVars>>

\* IsSystemHealthy(): TotalViolations = Stats.TotalViolationsDetected.load()
IsSystemHealthyLoad(t) ==
    /\ MCanCall(t)
    /\ mcalls' = mcalls + 1
    /\ TotalViolations' =
         [TotalViolations EXCEPT ![t] = MonitorStats.TotalViolationsDetected]
    /\ mpc' = [mpc EXCEPT ![t] = "h_scan"]
    /\ mop' = [mop EXCEPT ![t] = "IsSystemHealthy"]
    /\ mret' = [mret EXCEPT ![t] = "none"]
    /\ emitted' = Emitted("IsSystemHealthy", {}, <<>>)
    /\ UNCHANGED <<monShared, Clock, cpc, WakeTime, Resource, AccessPattern,
                   LockObject, Now, advances, lastAccess>>
    /\ UNCHANGED <<liveThreads, heldLocks, mtxVars>>
    /\ UNCHANGED <<hrVars, gwVars>>

\* IsSystemHealthy(): the Critical reports are counted under ViolationsMutex;
\* return CriticalViolations == 0 && TotalViolations < 100
IsSystemHealthyScan(t) ==
    /\ mpc[t] = "h_scan"
    /\ LET CriticalViolations ==
               Cardinality({i \in DOMAIN ViolationReports :
                              ViolationReports[i].Severity = Critical})
       IN  mret' = [mret EXCEPT ![t] =
                      IF CriticalViolations = 0
                           /\ TotalViolations[t] < UnhealthyViolationCount
                        THEN "true" ELSE "false"]
    /\ mpc' = [mpc EXCEPT ![t] = "idle"]
    /\ mop' = [mop EXCEPT ![t] = "none"]
    /\ emitted' = Emitted("IsSystemHealthy", {}, <<>>)
    /\ UNCHANGED <<monShared, Clock, cpc, WakeTime, Resource, AccessPattern,
                   LockObject, Now, TotalViolations, mcalls, advances, lastAccess>>
    /\ UNCHANGED <<liveThreads, heldLocks, mtxVars>>
    /\ UNCHANGED <<hrVars, gwVars>>

(***************************************************************************)
(* Behaviours of the monitor                                               *)
(***************************************************************************)
\* the monitor after thread 1 called Initialize(InConfig), with InConfig one
\* of InConfigs, and StartMonitoring(): the monitoring thread is about to run
\* its first cycle
InitMonitoring(InConfigs) ==
    /\ InitHR
    /\ InitGW
    /\ bMonitorInitialized = TRUE
    /\ bIsMonitoring = TRUE
    /\ bShouldStop = FALSE
    /\ MonitorConfig \in InConfigs
    /\ MonitorStats = FMonitoringStats
    /\ ResourceAccessHistory = [r \in Resources |-> <<>>]
    /\ ThreadLastActivity = [u \in {1} |-> 0]
    /\ ThreadLockOrder = [t \in MonitorThreads |-> <<>>]
    /\ ViolationReports = <<>>
    /\ Clock = 0
    /\ cpc = "races"
    /\ WakeTime = 0
    /\ mpc = [t \in MonitorThreads |-> "idle"]
    /\ mop = [t \in MonitorThreads |-> "none"]
    /\ mret = [t \in MonitorThreads |-> "none"]
    /\ Resource = [t \in MonitorThreads |-> NoResource]
    /\ AccessPattern = [t \in MonitorThreads |-> "none"]
    /\ LockObject = [t \in MonitorThreads |-> NoResource]
    /\ Now = [t \in MonitorThreads |-> 0]
    /\ TotalViolations = [t \in MonitorThreads |-> 0]
    /\ mcalls = 0
    /\ advances = 0
    /\ emitted = Emitted("none", {}, <<>>)
    /\ lastAccess = <<>>
    /\ liveThreads = 1
    /\ heldLocks = [t \in MonitorThreads |-> <<>>]
    /\ MutexOwner = [m \in {"ResourcesMutex", "ThreadsMutex", "LockOrderMutex",
                             "ViolationsMutex"} |-> NoThread]
    /\ path = [t \in 1..(NumMonitorThreads + 1) |-> <<>>]
    /\ nested = {}

\* threads that record lock acquisitions and releases during the first
\* detection cycle and the sleep that follows it
NextLocks ==
    \/ \E t \in MonitorThreads :
          \/ RecordLockAcquisitionCall(t)
          \/ RecordLockOrder(t)
          \/ RecordLockRelease(t)
    \/ DetectRaceConditions
    \/ DetectDeadlockPotential
    \/ DetectResourceLeaks
    \/ CleanupExpiredData

SpecLocks == InitMonitoring(MonitorConfigurations) /\ [][NextLocks]_vars

\* threads that record resource accesses while it is monitoring
NextAccess ==
    \/ \E t \in MonitorThreads :
          \/ RecordResourceAccessCall(t)
          \/ RecordResourceAccessLocked(t)
    \/ MonitoringThread
    \/ AdvanceClock

SpecAccess == InitMonitoring({FMonitoringConfig}) /\ [][NextAccess]_vars

\* threads that record resource accesses while the configuration is being
\* replaced
SpecHistory ==
    /\ InitMonitoring(MonitorConfigurations)
    /\ [][\/ \E t \in MonitorThreads :
               \/ RecordResourceAccessCall(t)
               \/ RecordResourceAccessLocked(t)
           \/ MonitorUpdateConfiguration
        ]_vars

\* threads that start and stop the monitoring and record lock acquisitions
\* and releases, from a monitor that is monitoring
SpecLifecycle ==
    /\ InitMonitoring({FMonitoringConfig})
    /\ [][\/ \E t \in MonitorThreads :
               \/ StartMonitoring(t)
               \/ StopMonitoring(t)
               \/ RecordLockAcquisitionCall(t)
               \/ RecordLockOrder(t)
               \/ RecordLockRelease(t)
           \/ MonitoringThread
           \/ AdvanceClock
        ]_vars

\* an initialized monitor whose detections have counted any number of
\* violations up to MaxTotalViolations
InitHealth ==
    /\ InitHR
    /\ InitGW
    /\ bMonitorInitialized = TRUE
    /\ bIsMonitoring = FALSE
    /\ bShouldStop = FALSE
    /\ MonitorConfig \in MonitorConfigurations
    /\ \E n \in 0..MaxTotalViolations :
         MonitorStats = [FMonitoringStats EXCEPT !.TotalViolationsDetected = n,
                                                 !.RaceConditionViolations = n]
    /\ ResourceAccessHistory = [r \in Resources |-> <<>>]
    /\ ThreadLastActivity = [u \in {1} |-> 0]
    /\ ThreadLockOrder = [t \in MonitorThreads |-> <<>>]
    /\ ViolationReports = <<>>
    /\ Clock = 0
    /\ cpc = "none"
    /\ WakeTime = 0
    /\ mpc = [t \in MonitorThreads |-> "idle"]
    /\ mop = [t \in MonitorThreads |-> "none"]
    /\ mret = [t \in MonitorThreads |-> "none"]
    /\ Resource = [t \in MonitorThreads |-> NoResource]
    /\ AccessPattern = [t \in MonitorThreads |-> "none"]
    /\ LockObject = [t \in MonitorThreads |-> NoResource]
    /\ Now = [t \in MonitorThreads |-> 0]
    /\ TotalViolations = [t \in MonitorThreads |-> 0]
    /\ mcalls = 0
    /\ advances = 0
    /\ emitted = Emitted("none", {}, <<>>)
    /\ lastAccess = <<>>
    /\ liveThreads = 0
    /\ heldLocks = [t \in MonitorThreads |-> <<>>]
    /\ MutexOwner = [m \in {"ResourcesMutex", "ThreadsMutex", "LockOrderMutex",
                             "ViolationsMutex"} |-> NoThread]
    /\ path = [t \in 1..(NumMonitorThreads + 1) |-> <<>>]
    /\ nested = {}

\* threads that ask whether the system is healthy
NextHealth ==
    \E t \in MonitorThreads :
        \/ IsSystemHealthyLoad(t)
        \/ IsSystemHealthyScan(t)

SpecHealth == InitHealth /\ [][NextHealth]_vars

(***************************************************************************)
(* The std::mutex members of the monitor.  A call is the sequence of the   *)
(* constructions ("lock") and destructions ("unlock") of its               *)
(* std::lock_guard objects; the branches and loop counts of the call, which *)
(* depend on the data, choose one of its sequences.                        *)
(***************************************************************************)
MaxRepeats == 1        \* iterations of a loop of one call that take a mutex

\* an UnregisterThread that would take LockOrderMutex before ThreadsMutex
MutexPathsUnregisterLockOrderFirst(op) ==
    LET Lock(m) == << <<"lock", m>> >>
        Unlock(m) == << <<"unlock", m>> >>
        Then(A, B) == {p \o q : p \in A, q \in B}
        Guarded(m, inner) == Then({Lock(m)}, Then(inner, {Unlock(m)}))
        RECURSIVE RepeatTimes(_, _)
        RepeatTimes(A, n) == IF n = 0 THEN {<<>>}
                                      ELSE Then(A, RepeatTimes(A, n - 1))
        Repeat(A) == UNION {RepeatTimes(A, n) : n \in 0..MaxRepeats}
        InReportViolation == {<<>>} \cup Guarded("ViolationsMutex", {<<>>})
        InAnalyzeResourceAccessPatterns == Repeat(InReportViolation)
        InRegisterThread == Guarded("ThreadsMutex", {<<>>})
        InDetectRaceConditions ==
            {<<>>} \cup Guarded("ResourcesMutex",
                                Repeat(InAnalyzeResourceAccessPatterns))
        InDetectDeadlockPotential ==
            {<<>>} \cup Guarded("LockOrderMutex", Repeat(InReportViolation))
        InDetectResourceLeaks ==
            {<<>>} \cup Guarded("ResourcesMutex", Repeat(InReportViolation))
        InCleanupExpiredData ==
            Then(Guarded("ResourcesMutex", {<<>>}),
                 Guarded("ThreadsMutex",
                         Repeat(Guarded("LockOrderMutex", {<<>>}))))
        InExportDiagnosticsReport ==
            Then(Guarded("ResourcesMutex", {<<>>}),
                 Guarded("ViolationsMutex", {<<>>}))
    IN  CASE op = "Initialize" ->
               {<<>>} \cup
               Then(Guarded("ResourcesMutex", {<<>>}),
               Then(Guarded("ThreadsMutex", {<<>>}),
               Then(Guarded("LockOrderMutex", {<<>>}),
               Then(Guarded("ViolationsMutex", {<<>>}), InRegisterThread))))
          [] op = "RecordResourceAccess" ->
               {<<>>} \cup Guarded("ResourcesMutex",
                                   {<<>>} \cup InAnalyzeResourceAccessPatterns)
          [] op = "RecordLockAcquisition" ->
               {<<>>} \cup
               Then(Guarded("ThreadsMutex", {<<>>}),
                    {<<>>} \cup Guarded("LockOrderMutex", InReportViolation))
          [] op = "RecordLockRelease" ->
               {<<>>} \cup Guarded("LockOrderMutex", {<<>>})
          [] op = "RegisterThread" -> InRegisterThread
          [] op = "UnregisterThread" ->
               Guarded("LockOrderMutex", Guarded("ThreadsMutex", {<<>>}))
          [] op = "DetectRaceConditions" -> InDetectRaceConditions
          [] op = "DetectDeadlockPotential" -> InDetectDeadlockPotential
          [] op = "DetectResourceLeaks" -> InDetectResourceLeaks
          [] op \in {"GetViolationReports", "ClearViolationReports",
                     "ExportViolationReport", "IsSystemHealthy"} ->
               Guarded("ViolationsMutex", {<<>>})
          [] op = "ExportDiagnosticsReport" -> InExportDiagnosticsReport
          [] op = "RunDetectionCycle" ->
               Then(InDetectRaceConditions,
               Then(InDetectDeadlockPotential,
               Then(InDetectResourceLeaks, InCleanupExpiredData)))

\* the sequences of lock_guard constructions and destructions of each public
\* operation of the monitor and of RunDetectionCycle, read off its body and
\* the bodies of the private functions it calls
MutexPaths(op) ==
    LET Lock(m) == << <<"lock", m>> >>
        Unlock(m) == << <<"unlock", m>> >>
        Then(A, B) == {p \o q : p \in A, q \in B}
        Guarded(m, inner) == Then({Lock(m)}, Then(inner, {Unlock(m)}))
        RECURSIVE RepeatTimes(_, _)
        RepeatTimes(A, n) == IF n = 0 THEN {<<>>}
                                      ELSE Then(A, RepeatTimes(A, n - 1))
        Repeat(A) == UNION {RepeatTimes(A, n) : n \in 0..MaxRepeats}
        InReportViolation == {<<>>} \cup Guarded("ViolationsMutex", {<<>>})
        InAnalyzeResourceAccessPatterns == Repeat(InReportViolation)
        InRegisterThread == Guarded("ThreadsMutex", {<<>>})
        InDetectRaceConditions ==
            {<<>>} \cup Guarded("ResourcesMutex",
                                Repeat(InAnalyzeResourceAccessPatterns))
        InDetectDeadlockPotential ==
            {<<>>} \cup Guarded("LockOrderMutex", Repeat(InReportViolation))
        InDetectResourceLeaks ==
            {<<>>} \cup Guarded("ResourcesMutex", Repeat(InReportViolation))
        InCleanupExpiredData ==
            Then(Guarded("ResourcesMutex", {<<>>}),
                 Guarded("ThreadsMutex",
                         Repeat(Guarded("LockOrderMutex", {<<>>}))))
        InExportDiagnosticsReport ==
            Then(Guarded("ResourcesMutex", {<<>>}),
                 Guarded("ViolationsMutex", {<<>>}))
    IN  CASE op = "Initialize" ->
               {<<>>} \cup
               Then(Guarded("ResourcesMutex", {<<>>}),
               Then(Guarded("ThreadsMutex", {<<>>}),
               Then(Guarded("LockOrderMutex", {<<>>}),
               Then(Guarded("ViolationsMutex", {<<>>}), InRegisterThread))))
          [] op = "RecordResourceAccess" ->
               {<<>>} \cup Guarded("ResourcesMutex",
                                   {<<>>} \cup InAnalyzeResourceAccessPatterns)
          [] op = "RecordLockAcquisition" ->
               {<<>>} \cup
               Then(Guarded("ThreadsMutex", {<<>>}),
                    {<<>>} \cup Guarded("LockOrderMutex", InReportViolation))
          [] op = "RecordLockRelease" ->
               {<<>>} \cup Guarded("LockOrderMutex", {<<>>})
          [] op = "RegisterThread" -> InRegisterThread
          [] op = "UnregisterThread" ->
               Guarded("ThreadsMutex", Guarded("LockOrderMutex", {<<>>}))
          [] op = "DetectRaceConditions" -> InDetectRaceConditions
          [] op = "DetectDeadlockPotential" -> InDetectDeadlockPotential
          [] op = "DetectResourceLeaks" -> InDetectResourceLeaks
          [] op \in {"GetViolationReports", "ClearViolationReports",
                     "ExportViolationReport", "IsSystemHealthy"} ->
               Guarded("ViolationsMutex", {<<>>})
          [] op = "ExportDiagnosticsReport" -> InExportDiagnosticsReport
          [] op = "RunDetectionCycle" ->
               Then(InDetectRaceConditions,
               Then(InDetectDeadlockPotential,
               Then(InDetectResourceLeaks, InCleanupExpiredData)))

\* a thread enters an operation of the monitor (RunDetectionCycle for the
\* monitoring thread, a public operation for every other thread), or
\* constructs its next std::lock_guard, which blocks while another thread
\* owns the mutex, or destroys it
MonitorLockGuard(t) ==
    /\ \/ /\ path[t] = <<>>
          /\ \E op \in IF t \in MonitorThreads
                         THEN {"Initialize", "RecordResourceAccess",
                               "RecordLockAcquisition", "RecordLockRelease",
                               "RegisterThread", "UnregisterThread",
                               "DetectRaceConditions", "DetectDeadlockPotential",
                               "DetectResourceLeaks", "GetViolationReports",
                               "ClearViolationReports", "ExportViolationReport",
                               "IsSystemHealthy", "ExportDiagnosticsReport"}
                         ELSE {"RunDetectionCycle"} :
               \E p \in MutexPaths(op) \ {<<>>} :
                  path' = [path EXCEPT ![t] = p]
          /\ UNCHANGED <<MutexOwner, nested>>
       \/ /\ path[t] # <<>>
          /\ Head(path[t])[1] = "lock"
          /\ MutexOwner[Head(path[t])[2]] = NoThread
          /\ MutexOwner' = [MutexOwner EXCEPT ![Head(path[t])[2]] = t]
          /\ nested' = nested \cup
                         {<<m, Head(path[t])[2]>> :
                            m \in {h \in DOMAIN MutexOwner : MutexOwner[h] = t}}
          /\ path' = [path EXCEPT ![t] = Tail(@)]
       \/ /\ path[t] # <<>>
          /\ Head(path[t])[1] = "unlock"
          /\ MutexOwner' = [MutexOwner EXCEPT ![Head(path[t])[2]] = NoThread]
          /\ path' = [path EXCEPT ![t] = Tail(@)]
          /\ UNCHANGED nested
    /\ UNCHANGED <<monShared, Clock, cpc, WakeTime, mpc, mop, mret, Resource,
                   AccessPattern, LockObject, Now, TotalViolations, mcalls,
                   advances, emitted, lastAccess, liveThreads, heldLocks>>
    /\ UNCHANGED <<hrVars, gwVars>>

\* threads that call the public operations of the monitor while its
\* monitoring thread runs detection cycles
SpecMutex == Init /\ [][\E t \in DOMAIN path : MonitorLockGuard(t)]_vars

(***************************************************************************)
(* Claims about rejected requests of the hot-reload state machine          *)
(***************************************************************************)

\* C15: AtomicBeginHotReload returns false at once, with the state, the
\* counters, the id counter and the statistics unchanged, when it is called
\* on a state machine no operation (so no Initialize) was ever called on or
\* whose bIsSystemReady is false (shutting down, shut down), and when its
\* load of bEmergencyStop finds the emergency stop set.
C15_BeginRejectedUnlessReady ==
    [][\A t \in Threads :
         /\ (BeginCall(t) /\ (hcalls = 0 \/ ~bIsSystemReady))
              => (hpc'[t] = "idle" /\ hret'[t] = "false" /\ UNCHANGED hrShared)
         /\ (BeginLoadEmergency(t) /\ bEmergencyStop)
              => (hpc'[t] = "idle" /\ hret'[t] = "false" /\ UNCHANGED hrShared)
      ]_vars

C20_PendingInRange ==
    0 <= PendingHotReloads /\ PendingHotReloads <= MaxPendingHotReloads

(***************************************************************************)
(* Claims about rejected and counted calls of the gateway                  *)
(***************************************************************************)

\* C18: a Safe* call whose admission check finds the gateway not initialized,
\* or shutting down, or CurrentActiveCalls >= MaxConcurrentCallbacks returns
\* TooManyConcurrentCalls in the step of that check: the wrapped foreign call
\* is not entered, no lock is waited for, CurrentActiveCalls and
\* ActiveCallbackIds stay as they are.
C18_RejectedWithoutEffect ==
    [][\A t \in Callers :
         (\/ SafeCall(t) /\ ~bIsInitialized
          \/ AcceptLoadShuttingDown(t) /\ bIsShuttingDown
          \/ /\ gpc[t] = "g_count" /\ gpc'[t] # "g_count"
             /\ CallbackStats.CurrentActiveCalls >= Config.MaxConcurrentCallbacks)
         => /\ gpc'[t] = "idle"
            /\ Result'[t] = "TooManyConcurrentCalls"
            /\ CallbackStats'.CurrentActiveCalls = CallbackStats.CurrentActiveCalls
            /\ ActiveCallbackIds' = ActiveCallbackIds
      ]_vars

\* a caller was turned away while another call filled the configured limit
C18_RejectedAtLimit ==
    \E t, u \in Callers :
        /\ gpc[t] = "idle" /\ Result[t] = "TooManyConcurrentCalls"
        /\ InForeignCall(u)
        /\ bIsInitialized /\ ~bIsShuttingDown
        /\ CallbackStats.CurrentActiveCalls >= Config.MaxConcurrentCallbacks
        /\ returned.TooManyConcurrentCalls = 1

\* C19: with statistics enabled and no reset, whenever every call has
\* returned, each outcome counter equals the number of calls that returned
\* that outcome (RejectedCallbacks those that returned
\* TooManyConcurrentCalls) and TotalCallbacksExecuted is their sum.
C19_CountersMatchResults ==
    (Config.bEnableStatistics /\ \A t \in Callers : gpc[t] = "idle")
      => /\ CallbackStats.SuccessfulCallbacks = returned.Success
         /\ CallbackStats.FailedCallbacks = returned.Failed
         /\ CallbackStats.TimeoutCallbacks = returned.Timeout
         /\ CallbackStats.RejectedCallbacks = returned.TooManyConcurrentCalls
         /\ CallbackStats.TotalCallbacksExecuted =
              returned.Success + returned.Failed + returned.Timeout
                + returned.TooManyConcurrentCalls

(***************************************************************************)
(* Claims about the concurrency monitor                                    *)
(***************************************************************************)

\* C13: the stored violation reports are a bounded buffer: for every
\* configured cap MaxViolationReports >= 1 the number of stored reports
\* never exceeds the cap.
C13_BufferBounded == Len(ViolationReports) <= MonitorConfig.MaxViolationReports

\* C17: while monitoring with lock-order validation enabled, the step of
\* RecordLockAcquisition that appends the acquired lock reports a Warning
\* LockOrderViolation when the lock is lower than some lock the thread
\* holds, and reports nothing when it is higher than every lock it holds.
C17_LowerThanAnyHeld ==
    [][\A t \in MonitorThreads :
         RecordLockOrder(t) =>
           LET held == {ThreadLockOrder[t][i] : i \in DOMAIN ThreadLockOrder[t]}
               reported ==
                   \E i \in DOMAIN emitted'.reports :
                      /\ emitted'.reports[i].Type = "LockOrderViolation"
                      /\ emitted'.reports[i].Severity = Warning
           IN  /\ (\E h \in held : LockObject[t] < h) => reported
               /\ (\A h \in held : LockObject[t] > h) => emitted'.reports = <<>>
      ]_vars

\* C14: IsSystemHealthy returns false exactly when a stored report has
\* severity Critical or the total violation count it loaded exceeds 100; with
\* no Critical report it returns true for every count from 0 to 100.
C14_UnhealthyAboveHundred ==
    [][\A t \in MonitorThreads :
         IsSystemHealthyScan(t) =>
           (mret'[t] = "false"
              <=> \/ \E i \in DOMAIN ViolationReports :
                       ViolationReports[i].Severity = Critical
                  \/ TotalViolations[t] > UnhealthyViolationCount)
      ]_vars

\* C11: whenever the history of a resource has just been analysed (by
\* RecordResourceAccess or by a detection cycle), for every adjacent pair of
\* records in its most recent window of at most 10 records that come from
\* different threads and are both Write or ReadWrite: an Error RaceCondition
\* report for the pair was emitted if the two timestamps are less than 50 ms
\* apart, and none was emitted if they are 50 ms or more apart; no
\* RaceCondition report names the same thread twice.
C11_RaceReportedWithinWindow ==
    \A r \in emitted.examined :
      emitted.step \in {"RecordResourceAccess", "DetectRaceConditions"} =>
        LET AccessHistory == ResourceAccessHistory[r]
            first == IF Len(AccessHistory) > RecentAccessWindow
                       THEN Len(AccessHistory) - RecentAccessWindow + 1 ELSE 1
            RaceReported(i) ==
                \E k \in DOMAIN emitted.reports :
                   /\ emitted.reports[k].Type = "RaceCondition"
                   /\ emitted.reports[k].Severity = Error
                   /\ emitted.reports[k].Description =
                        <<r, AccessHistory[i].ThreadId, AccessHistory[i + 1].ThreadId,
                          AccessHistory[i + 1].Timestamp - AccessHistory[i].Timestamp>>
            Apart(i) ==
                IF AccessHistory[i + 1].Timestamp >= AccessHistory[i].Timestamp
                  THEN AccessHistory[i + 1].Timestamp - AccessHistory[i].Timestamp
                  ELSE AccessHistory[i].Timestamp - AccessHistory[i + 1].Timestamp
        IN  /\ \A i \in first..(Len(AccessHistory) - 1) :
                 (/\ AccessHistory[i].ThreadId # AccessHistory[i + 1].ThreadId
                  /\ AccessHistory[i].AccessPattern \in {"Write", "ReadWrite"}
                  /\ AccessHistory[i + 1].AccessPattern \in {"Write", "ReadWrite"})
                 => (RaceReported(i) <=> Apart(i) < RaceWindowMs)
            /\ \A k \in DOMAIN emitted.reports :
                 emitted.reports[k].Type = "RaceCondition"
                   => emitted.reports[k].InvolvedThreads[1]
                        # emitted.reports[k].InvolvedThreads[2]

\* C12: in every detection cycle (with resource tracking enabled) a resource
\* that was accessed once produces exactly one Warning ResourceLeak report
\* when that access is older than ResourceAccessTimeoutSeconds, and none
\* when it is not.
C12_OneLeakReportPerStaleCycle ==
    (emitted.step = "DetectResourceLeaks" /\ emitted.examined = Resources) =>
      \A r \in DOMAIN lastAccess :
        Len(lastAccess[r]) = 1 =>
          LET leaks == {k \in DOMAIN emitted.reports :
                          /\ emitted.reports[k].Type = "ResourceLeak"
                          /\ emitted.reports[k].Severity = Warning
                          /\ emitted.reports[k].ResourceName = r}
          IN  Cardinality(leaks) =
                IF Clock - lastAccess[r][1] > MonitorConfig.ResourceAccessTimeoutSeconds
                  THEN 1 ELSE 0

C26_DeadlockIffSharedLock ==
    (emitted.step = "DetectDeadlockPotential"
       /\ MonitorConfig.bEnableDeadlockDetection)
    => \A T1, T2 \in MonitorThreads :
         LET lockSet(T) == {ThreadLockOrder[T][i] : i \in DOMAIN ThreadLockOrder[T]}
             naming == {k \in DOMAIN emitted.reports :
                          /\ emitted.reports[k].Type = "DeadlockPotential"
                          /\ emitted.reports[k].InvolvedThreads = <<T1, T2>>}
         IN  /\ Cardinality(naming) =
                  IF T1 # T2 /\ lockSet(T1) \cap lockSet(T2) # {} THEN 1 ELSE 0
             /\ \A k \in naming : emitted.reports[k].Severity = Error

\* a detection cycle found two threads holding the same lock while a lock
\* held by only one of them is recorded as well
C26_SharedLockReported ==
    /\ emitted.step = "DetectDeadlockPotential"
    /\ emitted.reports # <<>>
    /\ \E T \in MonitorThreads : Len(ThreadLockOrder[T]) >= 2

\* C27: whenever a history has just been analysed, for every adjacent pair of
\* records in its most recent window that come from different threads and
\* are less than 100 ms apart: a Warning UnsafeConcurrentAccess report for
\* the pair was emitted when one access is a Read and the other a Write, in
\* either order, and none was emitted when neither access is a Read.
C27_UnsafeOnlyForReadWithWrite ==
    \A r \in emitted.examined :
      emitted.step \in {"RecordResourceAccess", "DetectRaceConditions"} =>
        LET AccessHistory == ResourceAccessHistory[r]
            first == IF Len(AccessHistory) > RecentAccessWindow
                       THEN Len(AccessHistory) - RecentAccessWindow + 1 ELSE 1
            UnsafeReported(i) ==
                \E k \in DOMAIN emitted.reports :
                   /\ emitted.reports[k].Type = "UnsafeConcurrentAccess"
                   /\ emitted.reports[k].Severity = Warning
                   /\ emitted.reports[k].Description =
                        <<r, AccessHistory[i].ThreadId, AccessHistory[i + 1].ThreadId,
                          AccessHistory[i + 1].Timestamp - AccessHistory[i].Timestamp>>
            Apart(i) ==
                IF AccessHistory[i + 1].Timestamp >= AccessHistory[i].Timestamp
                  THEN AccessHistory[i + 1].Timestamp - AccessHistory[i].Timestamp
                  ELSE AccessHistory[i].Timestamp - AccessHistory[i + 1].Timestamp
            Patterns(i) == {AccessHistory[i].AccessPattern,
                            AccessHistory[i + 1].AccessPattern}
        IN  \A i \in first..(Len(AccessHistory) - 1) :
               (/\ AccessHistory[i].ThreadId # AccessHistory[i + 1].ThreadId
                /\ Apart(i) < ConflictWindowMs)
               => /\ Patterns(i) = {"Read", "Write"} => UnsafeReported(i)
                  /\ "Read" \notin Patterns(i) => ~UnsafeReported(i)

\* C23: the step of RecordResourceAccess that holds ResourcesMutex, made by
\* the thread and with the pattern of the history's last record less than
\* 100 ms after that record's timestamp, leaves the length of the history
\* unchanged, adds one to the last record's AccessCount and sets its
\* timestamp to the time of the call; in every other case the history ends
\* with a new record of the call with AccessCount 1, one longer than before
\* unless the window was exceeded.
C23_RepeatMergedElseAppended ==
    [][\A t \in MonitorThreads :
         (mpc[t] = "a_lock" /\ mpc'[t] = "idle") =>
           LET before == ResourceAccessHistory[Resource[t]]
               after == ResourceAccessHistory'[Resource[t]]
               last == before[Len(before)]
               repeat == /\ before # <<>>
                         /\ last.ThreadId = t
                         /\ last.AccessPattern = AccessPattern[t]
                         /\ Now[t] >= last.Timestamp
                         /\ Now[t] - last.Timestamp < MergeWindowMs
           IN  IF repeat
                 THEN /\ Len(after) = Len(before)
                      /\ after = [before EXCEPT ![Len(before)] =
                                    [last EXCEPT !.AccessCount = last.AccessCount + 1,
                                                 !.Timestamp = Now[t]]]
                 ELSE /\ after # <<>>
                      /\ after[Len(after)] =
                           [ThreadId |-> t, AccessPattern |-> AccessPattern[t],
                            Timestamp |-> Now[t], AccessCount |-> 1]
                      /\ Len(before) + 1 <= MonitorConfig.MaxResourceHistorySize \div 10
                           => after = Append(before, after[Len(after)])
      ]_vars

\* a repeated access was merged into a record that is not the only one of
\* its history
C23_RepeatWasMerged ==
    \E r \in Resources :
        /\ Len(ResourceAccessHistory[r]) >= 2
        /\ ResourceAccessHistory[r][Len(ResourceAccessHistory[r])].AccessCount >= 2

\* C24: after every RecordResourceAccess the history of each resource holds
\* at most MaxResourceHistorySize / 10 records of the configuration in
\* force, and the record of a call that was appended is the last one.
C24_HistoryWithinWindow ==
    [][\A t \in MonitorThreads :
         (mpc[t] = "a_lock" /\ mpc'[t] = "idle") =>
           /\ \A r \in Resources :
                Len(ResourceAccessHistory'[r])
                  <= MonitorConfig.MaxResourceHistorySize \div 10
           /\ LET after == ResourceAccessHistory'[Resource[t]]
              IN  /\ after # <<>>
                  /\ after[Len(after)].ThreadId = t
                  /\ after[Len(after)].Timestamp = Now[t]
      ]_vars

\* C25: of the reports a step of RecordResourceAccess or RecordLockAcquisition
\* hands to ReportViolation only those whose severity is at least the
\* MinReportSeverity in force are stored: every stored report was stored
\* before or is one of them, the last of them is the last stored report, and
\* the statistics count one violation for each of them; when every report
\* is below the minimum neither the stored reports nor the statistics
\* change.
C25_StoredOnlyFromMinSeverity ==
    [][emitted'.step \in {"RecordResourceAccess", "RecordLockAcquisition"} =>
         LET AtLeastMin(Report) ==
                 Report.Severity >= MonitorConfig.MinReportSeverity
             stored == SelectSeq(emitted'.reports, AtLeastMin)
             size == Len(ViolationReports')
         IN  /\ stored = <<>> => UNCHANGED <<ViolationReports, MonitorStats>>
             /\ stored # <<>> =>
                  /\ size >= 1
                  /\ ViolationReports'[size] = stored[Len(stored)]
             /\ \A i \in 1..size :
                  \/ \E k \in DOMAIN ViolationReports :
                        ViolationReports[k] = ViolationReports'[i]
                  \/ \E k \in DOMAIN stored : stored[k] = ViolationReports'[i]
             /\ MonitorStats'.TotalViolationsDetected =
                  MonitorStats.TotalViolationsDetected + Len(stored)
      ]_vars

\* while only Error reports are wanted a Warning report was handed to
\* ReportViolation and an Error report is stored
C25_WarningDroppedErrorStored ==
    /\ MonitorConfig.MinReportSeverity = Error
    /\ \E k \in DOMAIN emitted.reports : emitted.reports[k].Severity = Warning
    /\ \E i \in DOMAIN ViolationReports : ViolationReports[i].Severity = Error
    /\ \A i \in DOMAIN ViolationReports : ViolationReports[i].Severity # Warning

\* C28: between calls, every lock in a thread's recorded held-lock sequence
\* is one the thread reported as acquired and has not yet reported as
\* released, whatever calls of RecordLockAcquisition, RecordLockRelease,
\* StartMonitoring and StopMonitoring were made.
C28_RecordedLocksAreHeld ==
    (\A u \in MonitorThreads : mpc[u] = "idle") =>
      \A t \in MonitorThreads :
        \A i \in DOMAIN ThreadLockOrder[t] :
          \E j \in DOMAIN heldLocks[t] : heldLocks[t][j] = ThreadLockOrder[t][i]

\* C30: at no time does more than one monitoring thread exist, in every
\* interleaving of concurrent StartMonitoring and StopMonitoring callers.
C30_AtMostOneMonitoringThread == liveThreads <= 1

\* C29: a Shutdown that found the gateway initialized always returns, even
\* if wrapped foreign calls never do; on its way it stores bIsShuttingDown,
\* and when it finds calls still active after the wait it empties
\* ActiveCallbackIds and stores CurrentActiveCalls = 0 while the callers stay
\* in their foreign calls; its return leaves the gateway uninitialized, and
\* from then on only Initialize makes it initialized again and a wrapper
\* called on the uninitialized gateway is turned away.
C29_ShutdownDrainsAndReturns ==
    /\ \A t \in Callers : (gop[t] = "Shutdown") ~> (gpc[t] = "idle")
    /\ [][\A t \in Callers :
             /\ (gop[t] = "Shutdown" /\ gpc[t] = "gs_remaining"
                   /\ gpc'[t] # "gs_remaining")
                  => gpc'[t] = (IF CallbackStats.CurrentActiveCalls > 0
                                  THEN "gf_ids" ELSE "gs_done")
             /\ (gop[t] = "Shutdown" /\ gpc[t] = "gf_ids" /\ gpc'[t] # "gf_ids")
                  => /\ ActiveCallbackIds' = {}
                     /\ \A u \in Callers : InForeignCall(u) => InForeignCall(u)'
             /\ (gop[t] = "Shutdown" /\ gpc[t] = "gf_zero" /\ gpc'[t] # "gf_zero")
                  => /\ CallbackStats'.CurrentActiveCalls = 0
                     /\ \A u \in Callers : InForeignCall(u) => InForeignCall(u)'
             /\ (gop[t] = "Shutdown" /\ gpc'[t] = "idle")
                  => ~bIsInitialized'
             /\ (~bIsInitialized /\ bIsInitialized')
                  => \E u \in Callers : gop[u] = "Initialize"
             /\ (~bIsInitialized /\ gcalls' # gcalls)
                  => /\ InWrapper(t)' => InWrapper(t)
                     /\ returned' \in {returned, Returns("TooManyConcurrentCalls")}
        ]_vars

\* a Shutdown has returned after clearing the tracking state while a wrapped
\* foreign call is still executing
C29_ReturnedWithCallInFlight ==
    /\ ~bIsInitialized /\ bIsShuttingDown /\ forceTerminated
    /\ CallbackStats.CurrentActiveCalls = 0
    /\ \E u \in Callers : InForeignCall(u)
    /\ \A t \in Callers : gop[t] \notin {"Shutdown", "ForceTerminate"}

\* C31: a tracker makes exactly one AtomicEndHotReload call over its
\* lifetime: never more than one, and when its lifetime ends it has made one,
\* with bSuccess true if MarkSuccess was its first Mark call and false if
\* MarkFailed was or if it was destroyed unmarked; once marked, neither a
\* later Mark call nor the destructor makes another call.
C31_TrackerEndsOnce ==
    [][\A t \in Threads :
         /\ Len(Tracker'[t].Ends) <= 1
         /\ (Tracker[t].phase \in {"alive", "ending"} /\ Tracker'[t].phase = "none")
              => Tracker[t].Ends = <<Tracker[t].Marked = "success">>
         /\ (Tracker[t].Marked # "none" /\ Tracker'[t].phase # "none")
              => Tracker'[t].Ends = Tracker[t].Ends
      ]_vars

\* one tracker was marked twice and another is being destroyed unmarked
C31_MarkedTwiceAndDestroyedUnmarked ==
    \E t, u \in Threads :
        /\ Tracker[t].Marks = 2 /\ Len(Tracker[t].Ends) = 1
        /\ Tracker[u].phase = "ending" /\ Tracker[u].Marked = "none"
        /\ Tracker[u].Ends = <<FALSE>>

\* C32: while no thread holds the StateMutex (and EmergencyStopAllHotReloads
\* was never called) the state is Idle or InProgress, and it is Idle exactly
\* when ActiveHotReloads is 0; Preparing, Finalizing and Cancelled are seen
\* only while a Begin, End or Cancel holds the mutex.
C32_SettledWhenUnlocked ==
    /\ StateMutex = NoThread =>
         /\ CurrentState \in {"Idle", "InProgress"}
         /\ CurrentState = "Idle" <=> ActiveHotReloads = 0
    /\ CurrentState \in {"Preparing", "Finalizing", "Cancelled"} =>
         \E t \in Threads : StateMutex = t /\ hop[t] \in {"Begin", "End", "Cancel"}

\* a session is open and nobody holds the mutex, after an earlier session was
\* ended and one was cancelled
C32_OpenAndUnlocked ==
    /\ StateMutex = NoThread
    /\ CurrentState = "InProgress" /\ ActiveHotReloads = 1
    /\ Stats.TotalHotReloads >= 1

\* C33: once the delayed reset of an emergency stop has run and no call is
\* in progress, a state machine that is back at Idle has ActiveHotReloads = 0,
\* so that the next AtomicBeginHotReload can succeed.
C33_IdleAgainAfterStop ==
    (/\ \A t \in Threads : hpc[t] = "idle"
     /\ resetSleeping = 0 /\ resetMid = 0
     /\ ~bEmergencyStop
     /\ CurrentState = "Idle")
       => ActiveHotReloads = 0

\* C34: while no operation is in progress (a session may be open, by
\* AtomicBeginHotReload or by ATOMIC_HOT_RELOAD_OPERATION, or ended), the id
\* set has as many elements as ActiveHotReloads says and
\* ValidateStateConsistency returns 0.
C34_ConsistentBetweenOperations ==
    (/\ \A t \in Threads : hpc[t] = "idle" /\ Tracker[t].phase \in {"none", "alive"}
     /\ StateMutex = NoThread)
       => /\ Cardinality(ActiveHotReloadIds) = ActiveHotReloads
          /\ ValidateStateConsistency = 0

\* C35: an AtomicEndHotReload or AtomicCancelHotReload whose caller passes an
\* id other than that of the open session (a caller passes the id its own
\* last AtomicBeginHotReload gave it, 0 if it gave none) changes neither the
\* state nor ActiveHotReloads nor a statistics counter.
C35_OnlyOwnIdCloses ==
    [][\A t \in Threads :
         (/\ hop[t] \in {"End", "Cancel"}
          /\ StateMutex = t
          /\ openSessions = 1
          /\ OutHotReloadId[t] # CurrentHotReloadId)
            => UNCHANGED <<CurrentState, ActiveHotReloads, Stats>>
      ]_vars

\* C36: CurrentActiveCalls is never negative, also after
\* ForceTerminateAllCallbacks or a Shutdown followed by Initialize while calls
\* admitted earlier are in flight and return later.
C36_ActiveCallsNeverNegative == CallbackStats.CurrentActiveCalls >= 0

\* C39: a thread blocked in WaitForCallbackSlot goes on once a slot is free
\* or shutdown has begun, without its timeout having to pass.
C39_WaiterReleasedWhenSlotFree ==
    \A t \in Callers : (gpc[t] = "w_wait" /\ SlotAvailable) ~> (gpc[t] # "w_wait")

\* C40: while the statistics are not reset, MaxConcurrentCalls never
\* decreases, whatever the interleaving of the admitted calls.
C40_MaxNeverDecreases ==
    [][CallbackStats'.MaxConcurrentCalls >= CallbackStats.MaxConcurrentCalls]_vars

\* C37: every step raises TotalViolationsDetected by exactly the number of
\* reports that ReportViolation accepted in that step (those at or above
\* MinReportSeverity), so the count equals the number of accepted reports
\* and stays 0 while no report has been accepted
C37_CountEqualsAcceptedReports ==
    [][LET accepted == {i \in DOMAIN emitted'.reports :
                          emitted'.reports[i].Severity
                            >= MonitorConfig.MinReportSeverity}
       IN  MonitorStats'.TotalViolationsDetected
             = MonitorStats.TotalViolationsDetected + Cardinality(accepted)]_vars

\* C38: the monitor's mutexes are acquired in a consistent order on every
\* path (the nested acquisitions seen so far form no cycle), and no set of
\* threads is deadlocked: there is no set of threads each of which is
\* blocked on a mutex owned by a thread of the set.
C38_ConsistentOrderNoDeadlock ==
    LET Blocked(t) == /\ path[t] # <<>>
                      /\ Head(path[t])[1] = "lock"
                      /\ MutexOwner[Head(path[t])[2]] # NoThread
    IN  /\ \A S \in SUBSET DOMAIN MutexOwner :
             S # {} => \E m \in S : \A n \in S : <<m, n>> \notin nested
        /\ \A S \in SUBSET DOMAIN path :
             S # {} => \E t \in S :
                          ~(Blocked(t) /\ MutexOwner[Head(path[t])[2]] \in S)

\* C38 happens: the monitoring thread, inside CleanupExpiredData, owns
\* ThreadsMutex and is blocked on LockOrderMutex, whose owner is blocked on
\* ViolationsMutex, which a third thread owns
C38_ChainOfBlockedThreads ==
    /\ MutexOwner["ThreadsMutex"] = NumMonitorThreads + 1
    /\ path[NumMonitorThreads + 1] # <<>>
    /\ Head(path[NumMonitorThreads + 1]) = <<"lock", "LockOrderMutex">>
    /\ \E t, u \in MonitorThreads :
          /\ t # u
          /\ MutexOwner["LockOrderMutex"] = t
          /\ path[t] # <<>>
          /\ Head(path[t]) = <<"lock", "ViolationsMutex">>
          /\ MutexOwner["ViolationsMutex"] = u

====
